---------------------------- MODULE Spec2Model ----------------------------
(***************************************************************************)
(* A model of jsmime's streaming MIME parser (src/mimeparser.js) together  *)
(* with the pieces of the header machinery it relies on                     *)
(* (StructuredHeaders, parseContentType, parseParameterHeader) and the      *)
(* content decoders of src/mimeutils.js.                                    *)
(*                                                                          *)
(* Text is modelled as a sequence of atoms.  Every atom that matters to    *)
(* the body parser is a single character (CR, LF, space, '-', '=', the     *)
(* letters used as boundaries and filler).  The keywords of the two        *)
(* headers the parser itself reads are multi-character atoms; they contain  *)
(* no line break, no dash and no white space, so every regular expression  *)
(* of the parser sees them exactly as it sees one ordinary character.      *)
(***************************************************************************)
EXTENDS Integers, Sequences, FiniteSets, TLC

-----------------------------------------------------------------------------
(* Atoms *)

CR == "CR"
LF == "LF"
SP == " "
DASH == "-"
EQ == "="

\* "Content-Type:" and "Content-Transfer-Encoding:" (name and colon)
CT == "Content-Type:"
CTE == "Content-Transfer-Encoding:"
\* media types
MPX == "multipart/mixed"
MPD == "multipart/digest"
MSG == "message/rfc822"
MSGGLOBAL == "message/global"
MSGNEWS == "message/news"
TXT == "text/plain"
\* parameter introducers ";boundary=" and ";charset="
BND == ";boundary="
CHS == ";charset="
\* the introducers ";boundary*0=", ";boundary*1=" and ";boundary*=" of RFC 2231
BND0 == ";boundary*0="
BND1 == ";boundary*1="
BNDX == ";boundary*="
PERCENT == "%"
\* transfer encodings
B64 == "base64"
QP == "quoted-printable"
\* charset labels
UTF8 == "utf-8"
BOGUS == "x-bogus"
\* the mbox envelope prefix "From "
FROM == "From "

MessageTypes == {MSG, MSGGLOBAL, MSGNEWS}
TypeAtoms == {MPX, MPD, TXT} \cup MessageTypes
ParamAtoms == {BND, CHS, BND0, BND1, BNDX}
ColonAtoms == {CT, CTE}

IsNL(a) == a \in {CR, LF}
IsWsp(a) == a \in {SP, CR, LF}

-----------------------------------------------------------------------------
(* JavaScript string primitives on atom sequences (0-based indices) *)

Max(S) == CHOOSE x \in S : \A y \in S : y <= x
Min(S) == CHOOSE x \in S : \A y \in S : x <= y

\* s.substring(from, to)
Substring(s, from, to) == SubSeq(s, from + 1, to)

\* s.lastIndexOf(ch, from): the start position is clamped into [0, length]
LastIndexOf(s, ch, from) ==
  LET f == IF from < 0 THEN 0 ELSE from
      hits == {i \in 0..(Len(s) - 1) : i <= f /\ s[i + 1] = ch}
  IN IF hits = {} THEN -1 ELSE Max(hits)

\* s.trim()
RECURSIVE TrimLeft(_)
TrimLeft(s) == IF s # <<>> /\ IsWsp(Head(s)) THEN TrimLeft(Tail(s)) ELSE s
RECURSIVE TrimRight(_)
TrimRight(s) ==
  IF s # <<>> /\ IsWsp(s[Len(s)]) THEN TrimRight(SubSeq(s, 1, Len(s) - 1)) ELSE s
Trim(s) == TrimRight(TrimLeft(s))

\* s.replace(/[\r\n]/g, '')
RECURSIVE StripNewlines(_)
StripNewlines(s) ==
  IF s = <<>> THEN <<>>
  ELSE IF IsNL(Head(s)) THEN StripNewlines(Tail(s))
  ELSE <<Head(s)>> \o StripNewlines(Tail(s))

\* has s the sequence t at 0-based position i ?
HasAt(s, i, t) == i + Len(t) <= Len(s) /\ SubSeq(s, i + 1, i + Len(t)) = t

\* the decimal digits of a count, as characters
DigitChar(d) == <<"0", "1", "2", "3", "4", "5", "6", "7", "8", "9">>[d + 1]
RECURSIVE NumToString(_)
NumToString(n) ==
  IF n < 10 THEN <<DigitChar(n)>> ELSE NumToString(n \div 10) \o <<DigitChar(n % 10)>>

-----------------------------------------------------------------------------
(* Packet conditioning *)

\* conditionToEndOnCRLF: [the text up to the last line break, the rest];
\* a '\r' that is the very last character is not considered
conditionToEndOnCRLF(buffer) ==
  LET lastCR == LastIndexOf(buffer, CR, Len(buffer) - 2)
      lastLF == LastIndexOf(buffer, LF, Len(buffer))
      end == IF lastLF > lastCR THEN lastLF ELSE lastCR
  IN <<Substring(buffer, 0, end + 1), Substring(buffer, end + 1, Len(buffer))>>

-----------------------------------------------------------------------------
(* The two regular expressions of the body parser *)

NoMatch == [found |-> FALSE, index |-> 0, len |-> 0, g1 |-> 0, term |-> FALSE]

\* length of (?:\r\n|[\r\n]) at position i, 0 when there is no line break
EolLenAt(s, i) ==
  IF HasAt(s, i, <<CR, LF>>) THEN 2
  ELSE IF i < Len(s) /\ IsNL(s[i + 1]) THEN 1
  ELSE 0

\* /(?:^(?:\r\n|[\r\n]))|(\r\n|[\r\n])\1/.exec(headerData)
HeaderEndAt(s, i) ==
  IF i = 0 /\ EolLenAt(s, 0) > 0 THEN EolLenAt(s, 0)
  ELSE IF HasAt(s, i, <<CR, LF, CR, LF>>) THEN 4
  ELSE IF i + 1 < Len(s) /\ IsNL(s[i + 1]) /\ s[i + 2] = s[i + 1] THEN 2
  ELSE 0

HeaderEndExec(s) ==
  LET hits == {i \in 0..(Len(s) - 1) : HeaderEndAt(s, i) > 0}
  IN IF hits = {} THEN NoMatch
     ELSE [NoMatch EXCEPT !.found = TRUE, !.index = Min(hits),
                          !.len = HeaderEndAt(s, Min(hits))]

\* the run of [ \t]* starting at position i
RECURSIVE WspRun(_, _)
WspRun(s, i) == IF i < Len(s) /\ s[i + 1] = SP THEN 1 + WspRun(s, i + 1) ELSE 0

\* [ \t]*(?:\r\n|[\r\n]|$) at position i: the length matched, or -1
BoundaryTailAt(s, i) ==
  LET j == i + WspRun(s, i)
  IN IF EolLenAt(s, j) > 0 THEN (j - i) + EolLenAt(s, j)
     ELSE IF j = Len(s) THEN j - i
     ELSE -1

\* (\r\n|[\r\n]|^)--boundary(--)?[ \t]*(?:\r\n|[\r\n]|$) anchored at position i
SplitAt(boundary, s, i) ==
  LET g1 == EolLenAt(s, i)
      q == i + g1 + 2 + Len(boundary)
      lead == (g1 > 0 \/ i = 0)
              /\ HasAt(s, i + g1, <<DASH, DASH>> \o boundary)
      withTerm == IF lead /\ HasAt(s, q, <<DASH, DASH>>)
                  THEN BoundaryTailAt(s, q + 2) ELSE -1
      without == IF lead THEN BoundaryTailAt(s, q) ELSE -1
  IN IF withTerm >= 0
     THEN [found |-> TRUE, index |-> i, len |-> (q + 2 + withTerm) - i,
           g1 |-> g1, term |-> TRUE]
     ELSE IF without >= 0
     THEN [found |-> TRUE, index |-> i, len |-> (q + without) - i,
           g1 |-> g1, term |-> FALSE]
     ELSE NoMatch

\* this._splitRegex.exec(buffer): the leftmost match
SplitExec(boundary, s) ==
  LET hits == {i \in 0..Len(s) : SplitAt(boundary, s, i).found}
  IN IF hits = {} THEN NoMatch ELSE SplitAt(boundary, s, Min(hits))

-----------------------------------------------------------------------------
(* Header block parsing *)

\* the index of the first header separator at or after position i, or -1:
\* /(?:\r\n|\n)(?![ \t])|\r(?![ \t\n])/
SeparatorLenAt(s, i) ==
  IF HasAt(s, i, <<CR, LF>>) THEN (IF HasAt(s, i + 2, <<SP>>) THEN 0 ELSE 2)
  ELSE IF HasAt(s, i, <<LF>>) THEN (IF HasAt(s, i + 1, <<SP>>) THEN 0 ELSE 1)
  ELSE IF HasAt(s, i, <<CR>>) THEN (IF HasAt(s, i + 1, <<SP>>) THEN 0 ELSE 1)
  ELSE 0

\* rawHeaderText.split(separator)
RECURSIVE SplitHeaderLines(_)
SplitHeaderLines(s) ==
  LET hits == {i \in 0..(Len(s) - 1) : SeparatorLenAt(s, i) > 0}
  IN IF hits = {} THEN <<s>>
     ELSE LET i == Min(hits)
          IN <<Substring(s, 0, i)>>
             \o SplitHeaderLines(Substring(s, i + SeparatorLenAt(s, i), Len(s)))

\* the position of the first atom of the line that holds a ':', or -1
ColonIndex(line) ==
  LET hits == {i \in 0..(Len(line) - 1) : line[i + 1] \in ColonAtoms}
  IN IF hits = {} THEN -1 ELSE Min(hits)

\* the lower-cased, trimmed name of a header line, as one of the two names
\* the parser asks for, or "other" ("" for a line whose name is empty)
HeaderName(line) ==
  LET colon == ColonIndex(line)
  IN IF colon < 0 THEN (IF Trim(line) = <<>> THEN "" ELSE "other")
     ELSE IF Trim(Substring(line, 0, colon)) # <<>> THEN "other"
     ELSE IF line[colon + 1] = CT THEN "content-type"
     ELSE "content-transfer-encoding"

HeaderValue(line, stripcontinuations) ==
  LET colon == ColonIndex(line)
      val == IF colon < 0 THEN <<>> ELSE Trim(Substring(line, colon + 1, Len(line)))
  IN IF stripcontinuations THEN StripNewlines(val) ELSE val

\* the raw values recorded under one name, in the order of the lines
RECURSIVE RawValues(_, _, _)
RawValues(lines, name, strip) ==
  IF lines = <<>> THEN <<>>
  ELSE (IF HeaderName(Head(lines)) = name
        THEN <<HeaderValue(Head(lines), strip)>> ELSE <<>>)
       \o RawValues(Tail(lines), name, strip)

\* s.indexOf(t)
IndexOf(s, t) ==
  LET hits == {i \in 0 .. Len(s) : HasAt(s, i, t)}
  IN IF hits = {} THEN -1 ELSE Min(hits)

\* values[0].substring(0, 5) == "From "
BeginsWithFrom(values) == values[1] # <<>> /\ values[1][1] = FROM

\* the rawHeaderText the object keeps: the text it was given, or for a block
\* that begins with an mbox delimiter '' when no line follows and otherwise
\* rawHeaderText.substring(rawHeaderText.indexOf(values[0])) after the shift
ElideDelimiter(rawHeaderText, values) ==
  IF ~BeginsWithFrom(values) THEN rawHeaderText
  ELSE IF Len(values) = 1 THEN <<>>
  ELSE Substring(rawHeaderText, IndexOf(rawHeaderText, values[2]), Len(rawHeaderText))

\* the positions in values of the lines for which the loop records a header
RecordedLines(values) ==
  {i \in DOMAIN values : /\ ~(i = 1 /\ BeginsWithFrom(values))
                         /\ HeaderName(values[i]) # ""}

\* new StructuredHeaders(rawHeaderText, options): the raw values of the two
\* headers the parser consults, the rawHeaderText property, and the lines
\* that were recorded as headers
StructuredHeaders(rawHeaderText, options) ==
  LET values == SplitHeaderLines(rawHeaderText)
      kept == IF BeginsWithFrom(values) THEN Tail(values) ELSE values
  IN [contentType |-> RawValues(kept, "content-type", options.stripcontinuations),
      cte |-> RawValues(kept, "content-transfer-encoding", options.stripcontinuations),
      rawHeaderText |-> ElideDelimiter(rawHeaderText, values),
      recorded |-> RecordedLines(values)]

\* one step of the tokenizer, for the delimiters ";=": the tokens of rest, where a
\* parameter introducer stands for the three tokens ';' name '='
RECURSIVE getHeaderTokens(_, _)
getHeaderTokens(rest, cur) ==
  LET flush == IF cur = <<>> THEN <<>> ELSE <<[kind |-> "text", text |-> cur]>>
  IN IF rest = <<>> THEN flush
     ELSE LET a == Head(rest)
          IN IF IsWsp(a) THEN flush \o getHeaderTokens(Tail(rest), <<>>)
             ELSE IF a = EQ
             THEN flush \o <<[kind |-> "=", text |-> <<>>]>>
                        \o getHeaderTokens(Tail(rest), <<>>)
             ELSE IF a \in ParamAtoms
             THEN flush \o <<[kind |-> ";", text |-> <<>>],
                             [kind |-> "text", text |-> <<a>>],
                             [kind |-> "=", text |-> <<>>]>>
                        \o getHeaderTokens(Tail(rest), <<>>)
             ELSE getHeaderTokens(Tail(rest), cur \o <<a>>)

\* the name=value scan of parseParameterHeader: the list of [name, value] matches
RECURSIVE ParamMatches(_, _, _)
ParamMatches(tokens, name, inName) ==
  IF tokens = <<>>
  THEN (IF name # <<>> /\ ~inName THEN <<[name |-> name, value |-> <<>>]>> ELSE <<>>)
  ELSE LET t == Head(tokens)
       IN IF t.kind = ";"
          THEN (IF name # <<>> /\ ~inName
                THEN <<[name |-> name, value |-> <<>>]>> ELSE <<>>)
               \o ParamMatches(Tail(tokens), <<>>, TRUE)
          ELSE IF t.kind = "="
          THEN ParamMatches(Tail(tokens), name, FALSE)
          ELSE IF inName /\ name = <<>>
          THEN ParamMatches(Tail(tokens), t.text, inName)
          ELSE IF ~inName /\ name # <<>>
          THEN <<[name |-> name, value |-> t.text]>>
               \o ParamMatches(Tail(tokens), <<>>, inName)
          ELSE IF inName
          THEN ParamMatches(Tail(tokens), <<>>, inName)
          ELSE ParamMatches(Tail(tokens), name, inName)

OCTET == "OCTET"

\* String.fromCharCode(n), for the octets that are characters of the model
CharOfByte(n) ==
  CASE n = 10 -> LF [] n = 13 -> CR [] n = 32 -> SP [] n = 45 -> DASH
    [] n = 61 -> EQ [] n = 98 -> "b" [] n = 99 -> "c" [] n = 120 -> "x"
    [] OTHER -> OCTET

HexDigits == <<"0", "1", "2", "3", "4", "5", "6", "7", "8", "9",
               "a", "b", "c", "d", "e", "f", "A", "B", "C", "D", "E", "F">>
IsHex(c) == \E i \in DOMAIN HexDigits : HexDigits[i] = c
HexVal(c) ==
  LET i == CHOOSE j \in DOMAIN HexDigits : HexDigits[j] = c
  IN IF i <= 16 THEN i - 1 ELSE i - 7

\* the labels the platform's TextDecoder accepts; any other label makes its
\* constructor raise a RangeError
KnownCharsets == {<<UTF8>>}

\* a parameter name taken apart at its first '*', as the loop over the matches
\* does: the name before the star, where the star stands ("none" for
\* param=, "last" for param*=, "inner" for param*N= and param*N*=), the
\* number N and whether a star comes last.  The introducers of the model
\* carry the numbers 0 and 1 only, both legal.
Shape(param, star, number, lastStar) ==
  [param |-> param, star |-> star, number |-> number, lastStar |-> lastStar]

ParamName(name) ==
  IF Len(name) # 1 THEN Shape(name, "none", 0, FALSE)
  ELSE CASE name[1] = BND0 -> Shape(<<BND>>, "inner", 0, FALSE)
         [] name[1] = BND1 -> Shape(<<BND>>, "inner", 1, FALSE)
         [] name[1] = BNDX -> Shape(<<BND>>, "last", 0, TRUE)
         [] OTHER -> Shape(name, "none", 0, FALSE)

\* token.replace(/%([0-9A-Fa-f]{2})/g, String.fromCharCode(parseInt(hex, 16)))
RECURSIVE PercentDecode(_)
PercentDecode(s) ==
  IF s = <<>> THEN <<>>
  ELSE IF Head(s) = PERCENT /\ Len(s) >= 3 /\ IsHex(s[2]) /\ IsHex(s[3])
  THEN <<CharOfByte(16 * HexVal(s[2]) + HexVal(s[3]))>>
       \o PercentDecode(SubSeq(s, 4, Len(s)))
  ELSE <<Head(s)>> \o PercentDecode(Tail(s))

\* the matches as they are pushed: with RFC 2231 decoding, the value of a name
\* that ends with '*' is percent-decoded
PushedMatches(matches, doRFC2231) ==
  [i \in DOMAIN matches |->
     IF doRFC2231 /\ ParamName(matches[i].name).lastStar
     THEN [matches[i] EXCEPT !.value = PercentDecode(@)]
     ELSE matches[i]]

\* charsetValues.get(name): the first value matched for name*=, wrapped, or <<>>
CharsetValue(matches, name) ==
  LET hits == {i \in DOMAIN matches :
                 /\ ParamName(matches[i].name).star = "last"
                 /\ ParamName(matches[i].name).param = <<name>>}
  IN IF hits = {} THEN <<>> ELSE <<matches[Min(hits)].value>>

\* an entry of continuationValues: valid, hasCharset (<<>> while undefined)
\* and the array of the values, where <<>> is a hole and <<v>> the value v
NoEntry == [seen |-> FALSE, valid |-> TRUE, hasCharset |-> <<>>, parts |-> <<>>]

\* entry[number] = value, the array growing as a JavaScript array does
SetPart(parts, number, value) ==
  [i \in 1 .. (IF number + 1 > Len(parts) THEN number + 1 ELSE Len(parts)) |->
     IF i = number + 1 THEN <<value>>
     ELSE IF i <= Len(parts) THEN parts[i] ELSE <<>>]

\* continuationValues.get(name) after the loop over the matches
RECURSIVE ContinuationEntry(_, _, _)
ContinuationEntry(matches, name, entry) ==
  IF matches = <<>> THEN entry
  ELSE LET n == ParamName(Head(matches).name)
           rest == Tail(matches)
           marked == [entry EXCEPT !.seen = TRUE,
                                   !.hasCharset = IF n.number = 0
                                                  THEN <<n.lastStar>> ELSE @]
       IN IF n.star # "inner" \/ n.param # <<name>> \/ (entry.seen /\ ~entry.valid)
          THEN ContinuationEntry(rest, name, entry)
          ELSE IF n.number + 1 <= Len(entry.parts) /\ entry.parts[n.number + 1] # <<>>
          THEN ContinuationEntry(rest, name, [marked EXCEPT !.valid = FALSE])
          ELSE ContinuationEntry(rest, name,
                 [marked EXCEPT !.parts = SetPart(@, n.number, Head(matches).value)])

\* entry.slice(0, i).join(''): the values up to the first hole
RECURSIVE JoinParts(_)
JoinParts(parts) ==
  IF parts = <<>> \/ Head(parts) = <<>> THEN <<>>
  ELSE Head(parts)[1] \o JoinParts(Tail(parts))

\* decode2231Value(value): the text after charset'language', decoded by a
\* fatal TextDecoder of the charset; ok is FALSE when it throws (a label the
\* platform does not know, or an octet that is no character of the model)
APOS == "'"

\* value.indexOf("'", from + 1)
QuoteAfter(value, from) ==
  LET later == {i \in (from + 1) .. (Len(value) - 1) : value[i + 1] = APOS}
  IN IF later = {} THEN -1 ELSE Min(later)

\* new TextDecoder(charset, {fatal: true}).decode(text)
FatalDecode(charset, text) ==
  IF charset \in KnownCharsets /\ \A i \in DOMAIN text : text[i] # OCTET
  THEN [ok |-> TRUE, text |-> text]
  ELSE [ok |-> FALSE, text |-> <<>>]

Decode2231At(value, quote1, quote2) ==
  FatalDecode(IF quote1 >= 0 THEN Substring(value, 0, quote1) ELSE <<>>,
              Substring(value, Max({quote1, quote2}) + 1, Len(value)))

decode2231Value(value) ==
  Decode2231At(value, QuoteAfter(value, -1),
               IF QuoteAfter(value, -1) >= 0
               THEN QuoteAfter(value, QuoteAfter(value, -1)) ELSE -1)

\* simpleValues.get(name): the first value matched for a parameter, wrapped in a
\* one-element sequence, or <<>> when the parameter is absent
FirstValue(matches, name) ==
  LET hits == {i \in DOMAIN matches : matches[i].name = <<name>>}
  IN IF hits = {} THEN <<>> ELSE <<matches[Min(hits)].value>>

\* the decoded value of an extended value, <<>> when there is none or when
\* decode2231Value throws
Decoded2231(raw) ==
  IF raw # <<>> /\ decode2231Value(raw[1]).ok
  THEN <<decode2231Value(raw[1]).text>> ELSE <<>>

\* the value the continuations of a parameter give, <<>> when they give none
ContinuedValue(entry) ==
  IF entry.hasCharset = <<>> THEN <<>>
  ELSE IF entry.hasCharset[1] THEN Decoded2231(<<JoinParts(entry.parts)>>)
  ELSE <<JoinParts(entry.parts)>>

\* values.get(name): the simple value, replaced by the joined continuations
\* and then by the extended value when RFC 2231 decoding is asked for
Preferred(extended, continued, simple) ==
  IF extended # <<>> THEN extended
  ELSE IF continued # <<>> THEN continued
  ELSE simple

ParameterValue(matches, name, doRFC2231) ==
  IF doRFC2231
  THEN Preferred(Decoded2231(CharsetValue(matches, name)),
                 ContinuedValue(ContinuationEntry(matches, name, NoEntry)),
                 FirstValue(matches, name))
  ELSE FirstValue(matches, name)

\* the parameters the parser reads, from the matches
ParametersOf(preSemi, matches, doRFC2231) ==
  [preSemi |-> preSemi,
   boundary |-> ParameterValue(matches, BND, doRFC2231),
   charset |-> ParameterValue(matches, CHS, doRFC2231)]

\* parseParameterHeader(headerValue, doRFC2047, doRFC2231): preSemi and the
\* parameters.  The header values of the model hold no encoded-word, so that
\* doRFC2047 changes no token.
parseParameterHeader(headerValue, doRFC2047, doRFC2231) ==
  LET semis == {i \in 0..(Len(headerValue) - 1) : headerValue[i + 1] \in ParamAtoms}
      semi == IF semis = {} THEN -1 ELSE Min(semis)
      start == IF semi < 0 THEN headerValue ELSE Substring(headerValue, 0, semi)
      rest == IF semi < 0 THEN <<>> ELSE Substring(headerValue, semi, Len(headerValue))
      trimmed == Trim(start)
      wsps == {i \in 0..(Len(trimmed) - 1) : IsWsp(trimmed[i + 1])}
      preSemi == IF wsps = {} THEN trimmed ELSE Substring(trimmed, 0, Min(wsps))
  IN ParametersOf(preSemi,
                  PushedMatches(ParamMatches(getHeaderTokens(rest, <<>>), <<>>, TRUE),
                                doRFC2231),
                  doRFC2231)

\* parseContentType: the fields of the structured Content-Type the parser reads
TextPlain == [mediatype |-> "text", subtype |-> "plain", type |-> TXT,
              boundary |-> <<>>, charset |-> <<>>]

\* parseContentType, from the parameter header that was parsed
ContentTypeOf(params) ==
  LET run == params.preSemi
      slashes == {i \in DOMAIN run : run[i] \in TypeAtoms}
  IN IF Cardinality(slashes) # 1 THEN TextPlain
     ELSE LET k == Min(slashes)
              exact == Len(run) = 1
              mediatype == IF k # 1 THEN "other"
                           ELSE IF run[1] \in {MPX, MPD} THEN "multipart"
                           ELSE IF run[1] \in MessageTypes THEN "message"
                           ELSE "text"
          IN [mediatype |-> mediatype,
              subtype |-> IF exact /\ run[1] = MPD THEN "digest"
                          ELSE IF exact /\ run[1] = MPX THEN "mixed"
                          ELSE IF exact /\ run[1] = MSG THEN "rfc822"
                          ELSE IF exact /\ run[1] = MSGGLOBAL THEN "global"
                          ELSE IF exact /\ run[1] = MSGNEWS THEN "news"
                          ELSE IF exact /\ run[1] = TXT THEN "plain"
                          ELSE "other",
              type |-> IF exact THEN run[1] ELSE "other",
              boundary |-> params.boundary,
              charset |-> params.charset]

\* the Content-Type decoder hands the first header value to the parameter
\* decoder, with false for both of its switches
parseContentType(value) == ContentTypeOf(parseParameterHeader(value[1], FALSE, FALSE))

-----------------------------------------------------------------------------
(* Parser instances *)

PARSING_HEADERS == 1
SEND_TO_BLACK_HOLE == 2
SEND_TO_EMITTER == 3
SEND_TO_SUBPARSER == 4

NoHeaders == [contentType |-> TextPlain, cte |-> <<>>]

\* the fields resetParser assigns.  A sequence-valued field that may be
\* undefined holds <<>> for undefined and <<v>> for the value v.
ResetFields ==
  [state |-> PARSING_HEADERS, holdData |-> <<>>, headerData |-> <<>>,
   triggeredCall |-> FALSE, splitRegex |-> <<>>, handleSplit |-> "undefined",
   subPartNum |-> <<>>, savedBuffer |-> <<>>, convertData |-> "undefined",
   decoder |-> "undefined"]

\* a reset that leaves the converter in place
resetParserPartly(p) ==
  [f \in DOMAIN p |->
     IF f \in DOMAIN ResetFields \ {"convertData"} THEN ResetFields[f] ELSE p[f]]

\* a reset that also forgets the default content type
resetParserAndDefault(p) ==
  [f \in DOMAIN p |->
     IF f \in DOMAIN ResetFields THEN ResetFields[f]
     ELSE IF f = "defaultContentType" THEN "undefined" ELSE p[f]]

\* MimeParser.prototype.resetParser applied to the record p
resetParser(p) ==
  [f \in DOMAIN p |-> IF f \in DOMAIN ResetFields THEN ResetFields[f] ELSE p[f]]

\* new MimeParser(emitter, options): the fields resetParser does not touch are
\* still unset (count 0, no headers, no charset, no default content type)
NewParser ==
  [state |-> PARSING_HEADERS, holdData |-> <<>>, headerData |-> <<>>,
   triggeredCall |-> FALSE, splitRegex |-> <<>>, handleSplit |-> "undefined",
   subPartNum |-> <<>>, savedBuffer |-> <<>>, convertData |-> "undefined",
   decoder |-> "undefined",
   count |-> 0, headers |-> NoHeaders, charset |-> <<>>,
   defaultContentType |-> "undefined"]

\* the default values of the parser options
DefaultOptions ==
  [pruneat |-> <<>>, bodyformat |-> "nodecode", strformat |-> "binarystring",
   stripcontinuations |-> TRUE, charset |-> <<>>, forcecharset |-> FALSE,
   onerror |-> "swallow"]

\* _willIgnorePart
WillIgnorePartByPrefix(options, part) ==
  LET match == options.pruneat
      start == SubSeq(part, 1, IF Len(match) < Len(part) THEN Len(match) ELSE Len(part))
  IN match # <<>> /\ start # match

WillIgnorePart(options, part) ==
  LET match == options.pruneat
      start == SubSeq(part, 1, IF Len(match) < Len(part) THEN Len(match) ELSE Len(part))
  IN /\ match # <<>>
     /\ \/ start # match
        \/ (Len(match) < Len(part) /\ part[Len(match) + 1] \notin {"$", "."})

\* A callback made on the emitter
Event(name, part, data, type) ==
  [name |-> name, part |-> part, data |-> data, type |-> type, threw |-> FALSE]

(***************************************************************************)
(* The operators below thread a record w through the statements of a call: *)
(*   w.ps     the chain of parsers: ps[1] is the parser the caller holds,  *)
(*            ps[i+1] is ps[i]._subparser                                   *)
(*   w.out    the callbacks made so far during this call                    *)
(*   w.calls  the number of callbacks made on the emitter during this call  *)
(*   w.err    "none", or the error that is propagating out of the call      *)
(*   w.fed    the buffers passed to _dispatchData so far during this call   *)
(* env holds the options and the set of callback ordinals at which the     *)
(* consumer's callback throws.                                              *)
(***************************************************************************)

SetParser(w, lvl, p) == [w EXCEPT !.ps[lvl] = p]

\* parser lvl is passed a buffer by its caller: before is "" when the text
\* the buffer follows is the text the parser was passed last
Fed(w, lvl, buffer, before) ==
  IF w.err # "none" THEN w
  ELSE [w EXCEPT !.fed = Append(@, [lvl |-> lvl, buffer |-> buffer,
                                    before |-> before, restart |-> FALSE])]

\* parser lvl is a new parser, or was reset
Restarted(w, lvl) ==
  [w EXCEPT !.fed = Append(@, [lvl |-> lvl, buffer |-> <<>>,
                               before |-> "", restart |-> TRUE])]

\* _callEmitter(funcname, args...)
CallEmitterUnguarded(w, env, ev) ==
  IF w.err # "none" THEN w
  ELSE IF ev.name \notin {"startMessage", "endMessage"}
          /\ WillIgnorePart(env.options, ev.part) THEN w
  ELSE LET n == w.calls + 1
           threw == n \in env.throwAt
       IN [w EXCEPT !.calls = n,
                    !.out = Append(@, [ev EXCEPT !.threw = threw]),
                    !.err = IF threw THEN "consumer" ELSE @]

CallEmitter(w, env, ev) ==
  IF w.err # "none" THEN w
  ELSE IF ev.name \notin {"startMessage", "endMessage"}
          /\ WillIgnorePart(env.options, ev.part) THEN w
  ELSE LET n == w.calls + 1
           threw == n \in env.throwAt
       IN [w EXCEPT !.calls = n,
                    !.out = Append(@, [ev EXCEPT !.threw = threw]),
                    !.err = IF threw /\ env.options.onerror = "rethrow"
                            THEN "onerror" ELSE @]

\* _parseHeaders: the structured Content-Type, that of the default type when
\* the part has no Content-Type header
ContentTypeHeader(p, raw) ==
  parseContentType(IF raw.contentType = <<>>
                   THEN << <<IF p.defaultContentType = "undefined"
                             THEN TXT ELSE p.defaultContentType>> >>
                   ELSE raw.contentType)

\* _parseHeaders: the charset of the part
PartCharset(options, contentType) ==
  IF options.forcecharset THEN options.charset
  ELSE IF contentType.charset # <<>> THEN contentType.charset[1]
  ELSE options.charset

\* _parseHeaders: the parser record with _headers and _charset set
SetHeaders(p, options, cte, contentType) ==
  [p EXCEPT !.headers = [contentType |-> contentType, cte |-> cte],
            !.charset = PartCharset(options, contentType)]

\* _parseHeaders, from the StructuredHeaders object on
ParseHeadersFrom(p, options, raw) ==
  SetHeaders(p, options, raw.cte, ContentTypeHeader(p, raw))

\* _parseHeaders
parseHeaders(p, options) ==
  ParseHeadersFrom(p, options, StructuredHeaders(p.headerData, options))

\* _extractHeader('content-transfer-encoding', ''): the lower-cased first value
ExtractCTE(p) == IF p.headers.cte = <<>> THEN <<>> ELSE p.headers.cte[1]

\* ContentDecoders[cte], "undefined" when cte is not a key
ContentDecoder(cte) ==
  IF cte = <<QP>> THEN "decode_qp"
  ELSE IF cte = <<B64>> THEN "decode_base64"
  ELSE "undefined"

-----------------------------------------------------------------------------
(* Content converters.  The two transfer decoders work on characters, so   *)
(* a keyword atom is first spelled out; what they produce is a sequence of *)
(* single characters, with OCTET standing for every octet that has no role *)
(* in the syntax the parser looks at.                                       *)

Chars(a) ==
  CASE a = CT -> <<"C", "o", "n", "t", "e", "n", "t", "-", "T", "y", "p", "e", ":">>
    [] a = CTE -> <<"C", "o", "n", "t", "e", "n", "t", "-", "T", "r", "a", "n", "s",
                    "f", "e", "r", "-", "E", "n", "c", "o", "d", "i", "n", "g", ":">>
    [] a = MPX -> <<"m", "u", "l", "t", "i", "p", "a", "r", "t", "/",
                    "m", "i", "x", "e", "d">>
    [] a = MPD -> <<"m", "u", "l", "t", "i", "p", "a", "r", "t", "/",
                    "d", "i", "g", "e", "s", "t">>
    [] a = MSG -> <<"m", "e", "s", "s", "a", "g", "e", "/", "r", "f", "c", "8", "2", "2">>
    [] a = MSGGLOBAL -> <<"m", "e", "s", "s", "a", "g", "e", "/", "g", "l", "o", "b", "a", "l">>
    [] a = MSGNEWS -> <<"m", "e", "s", "s", "a", "g", "e", "/", "n", "e", "w", "s">>
    [] a = TXT -> <<"t", "e", "x", "t", "/", "p", "l", "a", "i", "n">>
    [] a = BND -> <<";", "b", "o", "u", "n", "d", "a", "r", "y", "=">>
    [] a = CHS -> <<";", "c", "h", "a", "r", "s", "e", "t", "=">>
    [] a = B64 -> <<"b", "a", "s", "e", "6", "4">>
    [] a = QP -> <<"q", "u", "o", "t", "e", "d", "-", "p", "r", "i", "n", "t", "a",
                   "b", "l", "e">>
    [] a = UTF8 -> <<"u", "t", "f", "-", "8">>
    [] a = BOGUS -> <<"x", "-", "b", "o", "g", "u", "s">>
    [] a = FROM -> <<"F", "r", "o", "m", " ">>
    [] OTHER -> <<a>>

RECURSIVE Flatten(_)
Flatten(s) == IF s = <<>> THEN <<>> ELSE Chars(Head(s)) \o Flatten(Tail(s))

\* the replace() of decode_qp, scanning the characters from the left
RECURSIVE QpReplace(_)
QpReplace(s) ==
  IF s = <<>> THEN <<>>
  ELSE IF Head(s) # EQ THEN <<Head(s)>> \o QpReplace(Tail(s))
  ELSE IF Len(s) >= 3 /\ IsHex(s[2]) /\ IsHex(s[3])
  THEN <<CharOfByte(16 * HexVal(s[2]) + HexVal(s[3]))>> \o QpReplace(SubSeq(s, 4, Len(s)))
  ELSE IF BoundaryTailAt(s, 1) >= 0
  THEN QpReplace(SubSeq(s, 2 + BoundaryTailAt(s, 1), Len(s)))
  ELSE <<EQ>> \o QpReplace(Tail(s))

\* decode_qp(buffer, more)
decode_qp(buffer, more) ==
  [out |-> QpReplace(Flatten(buffer)), saved |-> <<>>, ok |-> TRUE]

Base64Alphabet ==
  <<"A", "B", "C", "D", "E", "F", "G", "H", "I", "J", "K", "L", "M",
    "N", "O", "P", "Q", "R", "S", "T", "U", "V", "W", "X", "Y", "Z",
    "a", "b", "c", "d", "e", "f", "g", "h", "i", "j", "k", "l", "m",
    "n", "o", "p", "q", "r", "s", "t", "u", "v", "w", "x", "y", "z",
    "0", "1", "2", "3", "4", "5", "6", "7", "8", "9", "+", "/">>
IsBase64(c) == \E i \in DOMAIN Base64Alphabet : Base64Alphabet[i] = c
Base64Val(c) == (CHOOSE i \in DOMAIN Base64Alphabet : Base64Alphabet[i] = c) - 1

\* buffer.replace(/[^A-Za-z0-9+\/=]/g, '')
RECURSIVE Sanitize(_)
Sanitize(s) ==
  IF s = <<>> THEN <<>>
  ELSE (IF IsBase64(Head(s)) \/ Head(s) = EQ THEN <<Head(s)>> ELSE <<>>)
       \o Sanitize(Tail(s))

\* the octets of a run of base64 characters without padding
RECURSIVE Base64Octets(_)
Base64Octets(s) ==
  IF Len(s) < 2 THEN <<>>
  ELSE IF Len(s) = 2
  THEN <<CharOfByte((64 * Base64Val(s[1]) + Base64Val(s[2])) \div 16)>>
  ELSE IF Len(s) = 3
  THEN LET v == (4096 * Base64Val(s[1]) + 64 * Base64Val(s[2]) + Base64Val(s[3])) \div 4
       IN <<CharOfByte(v \div 256), CharOfByte(v % 256)>>
  ELSE LET v == 262144 * Base64Val(s[1]) + 4096 * Base64Val(s[2])
                + 64 * Base64Val(s[3]) + Base64Val(s[4])
       IN <<CharOfByte(v \div 65536), CharOfByte((v \div 256) % 256), CharOfByte(v % 256)>>
          \o Base64Octets(SubSeq(s, 5, Len(s)))

\* the platform's atob(): up to two '=' are dropped from the end of a string
\* whose length is a multiple of four; any other '=' is an invalid character
atob(s) ==
  LET n == Len(s)
      pad == IF n % 4 = 0 /\ n >= 2 /\ s[n] = EQ /\ s[n - 1] = EQ THEN 2
             ELSE IF n % 4 = 0 /\ n >= 1 /\ s[n] = EQ THEN 1
             ELSE 0
      body == SubSeq(s, 1, n - pad)
      bad == Len(body) % 4 = 1 \/ \E i \in DOMAIN body : body[i] = EQ
  IN IF bad THEN [ok |-> FALSE, out |-> <<>>]
     ELSE [ok |-> TRUE, out |-> Base64Octets(body)]

\* decode_base64, from the sanitized buffer on
DecodeSanitized(sanitize, more) ==
  LET excess == Len(sanitize) % 4
      rest == IF excess # 0 /\ more
              THEN SubSeq(sanitize, Len(sanitize) - excess + 1, Len(sanitize))
              ELSE <<>>
      decoded == atob(SubSeq(sanitize, 1, Len(sanitize) - excess))
  IN [out |-> decoded.out, saved |-> rest, ok |-> decoded.ok]

\* decode_base64(buffer, more)
decode_base64(buffer, more) == DecodeSanitized(Sanitize(Flatten(buffer)), more)

\* mpart_no_leak_crlf(buffer, more), the converter a multipart installs
mpart_no_leak_crlf(buffer, more) ==
  LET len == Len(buffer)
      sp1 == IF more /\ len >= 1 /\ buffer[len] = LF THEN len - 1 ELSE len
      splitPoint == IF more /\ sp1 >= 1 /\ buffer[sp1] = CR THEN sp1 - 1 ELSE sp1
      res == conditionToEndOnCRLF(Substring(buffer, 0, splitPoint))
  IN [out |-> res[1], saved |-> res[2] \o Substring(buffer, splitPoint, len), ok |-> TRUE]

\* this._convertData(buffer, more)
ConvertData(kind, buffer, more) ==
  CASE kind = "mpart_no_leak_crlf" -> mpart_no_leak_crlf(buffer, more)
    [] kind = "decode_qp" -> decode_qp(buffer, more)
    [] kind = "decode_base64" -> decode_base64(buffer, more)

-----------------------------------------------------------------------------
(* MIME parser core *)

\* _coerceData(buffer, type, more): binary string, typed array and decoded
\* text are all written as the same sequence of characters
coerceData(p, buffer, type, more) == buffer

\* _applyDataConversion, with the result r of this._convertData: the record w
\* after the call and the data to pass on
Converted(w, lvl, r, type) ==
  IF r.ok
  THEN [w |-> SetParser(w, lvl, [w.ps[lvl] EXCEPT !.savedBuffer = r.saved]),
        buf |-> coerceData(w.ps[lvl], r.out, type, TRUE)]
  ELSE [w |-> [w EXCEPT !.err = "InvalidCharacterError"], buf |-> <<>>]

\* _applyDataConversion(buf, type) on parser lvl
applyDataConversion(w, lvl, buf, type) ==
  LET p == w.ps[lvl]
  IN IF p.convertData # "undefined"
     THEN Converted(w, lvl, ConvertData(p.convertData, p.savedBuffer \o buf, TRUE), type)
     ELSE [w |-> w, buf |-> coerceData(p, buf, type, TRUE)]

\* _startBody: the number of the message embedded in a message/rfc822 part
EmbeddedPartNumBare(partNum) == partNum
EmbeddedPartNum(partNum) == partNum \o <<"$">>

\* _startBody: is the part passed through without interpretation?
PassThroughNever(opts, partNum) == FALSE
PassThrough(opts, partNum) == opts.bodyformat = "raw" /\ partNum = opts.pruneat

\* _startBody(partNum) on parser lvl
startBody(w, env, lvl, partNum) ==
  IF w.err # "none" THEN w
  ELSE
  LET p == w.ps[lvl]
      options == env.options
      contentType == p.headers.contentType
      above == SubSeq(w.ps, 1, lvl - 1)
      \* the part of the function that picks the state
      multipart ==
        [p EXCEPT !.splitRegex = contentType.boundary,
                  !.handleSplit = "whenMultipart",
                  !.state = SEND_TO_BLACK_HOLE,
                  !.convertData = "mpart_no_leak_crlf"]
      child == IF contentType.subtype = "digest"
               THEN [NewParser EXCEPT !.defaultContentType = MSG]
               ELSE NewParser
      message ==
        [p EXCEPT !.state = SEND_TO_SUBPARSER,
                  !.subPartNum = <<EmbeddedPartNum(partNum)>>,
                  !.convertData = IF ContentDecoder(ExtractCTE(p)) # "undefined"
                                  THEN ContentDecoder(ExtractCTE(p)) ELSE @]
      leaf ==
        [p EXCEPT !.state = SEND_TO_EMITTER,
                  !.convertData = IF options.bodyformat = "decode"
                                     /\ ContentDecoder(ExtractCTE(p)) # "undefined"
                                  THEN ContentDecoder(ExtractCTE(p)) ELSE @]
      chosen == IF contentType.mediatype = "multipart" THEN <<multipart, child>>
                ELSE IF contentType.type \in MessageTypes THEN <<message, NewParser>>
                ELSE <<leaf>>
      \* the part that sets up the charset decoder
      wantsDecoder == options.strformat = "unicode" /\ contentType.mediatype = "text"
      decoder == IF ~wantsDecoder THEN "null"
                 ELSE IF p.charset # <<>> THEN "TextDecoder"
                 ELSE "identity"
      rangeError == wantsDecoder /\ p.charset # <<>> /\ p.charset \notin KnownCharsets
  IN IF PassThrough(options, partNum)
     THEN SetParser(w, lvl, [p EXCEPT !.state = SEND_TO_EMITTER])
     ELSE IF contentType.mediatype = "multipart" /\ contentType.boundary = <<>>
     THEN SetParser(w, lvl, [p EXCEPT !.state = SEND_TO_BLACK_HOLE])
     ELSE IF rangeError
     THEN [w EXCEPT !.ps = above \o chosen, !.err = "RangeError"]
     ELSE [(IF Len(chosen) > 1 THEN Restarted(w, lvl + 1) ELSE w) EXCEPT
             !.ps = above \o <<[chosen[1] EXCEPT !.decoder = decoder]>> \o Tail(chosen)]

RECURSIVE dispatchData(_, _, _, _, _, _)
RECURSIVE dispatchBody(_, _, _, _, _, _)
RECURSIVE dispatchEOF(_, _, _, _)
RECURSIVE whenMultipart(_, _, _, _, _)

\* _dispatchData, PARSING_HEADERS: the headers are parsed, the part is
\* reported and its body is set up
HeadersDone(w, env, lvl, partNum, parsed) ==
  startBody(CallEmitter(\* once parsed, the header text lives on in _headers only
                        SetParser(w, lvl, [parsed EXCEPT !.headerData = <<>>]), env,
                        Event("startPart", partNum, <<>>, parsed.headers.contentType.type)),
            env, lvl, partNum)

\* _dispatchData, PARSING_HEADERS: the outcome of looking for the end of the
\* header block in the header data accumulated
HeadersMatched(w, env, lvl, partNum, headerData, result, checkSplit) ==
  IF result.found
  THEN dispatchBody(
         HeadersDone(w, env, lvl, partNum,
                     parseHeaders([w.ps[lvl] EXCEPT
                                     !.headerData = Substring(headerData, 0, result.index)],
                                  env.options)),
         env, lvl, partNum,
         Substring(headerData, result.index + result.len, Len(headerData)),
         checkSplit)
  ELSE SetParser(w, lvl, [w.ps[lvl] EXCEPT !.headerData = headerData])

\* _dispatchData, PARSING_HEADERS: the buffer was added to the header data
AccumulateHeaders(w, env, lvl, partNum, headerData, checkSplit) ==
  HeadersMatched(w, env, lvl, partNum, headerData, HeaderEndExec(headerData), checkSplit)

\* _dispatchData(partNum, buffer, checkSplit) on parser lvl: header accumulation
dispatchData(w, env, lvl, partNum, buffer, checkSplit) ==
  IF w.err # "none" THEN w
  ELSE IF w.ps[lvl].state = PARSING_HEADERS
  THEN AccumulateHeaders(w, env, lvl, partNum, w.ps[lvl].headerData \o buffer, checkSplit)
  ELSE dispatchBody(w, env, lvl, partNum, buffer, checkSplit)

\* a parser that reports the converted data without looking at its length
EmitDataAlways(r, env, partNum) ==
  CallEmitter(r.w, env, Event("deliverPartData", partNum, r.buf, ""))

\* _dispatchData, SEND_TO_EMITTER: r is the converted data
EmitData(r, env, partNum) ==
  IF Len(r.buf) > 0
  THEN CallEmitter(r.w, env, Event("deliverPartData", partNum, r.buf, ""))
  ELSE r.w

\* _dispatchData, SEND_TO_SUBPARSER: r is the converted data
FeedSubparser(r, env, lvl, subPartNum) ==
  IF Len(r.buf) > 0
  THEN dispatchData(Fed(r.w, lvl + 1, r.buf, ""), env, lvl + 1, subPartNum, r.buf, TRUE)
  ELSE r.w

\* _dispatchData: where does the data go?
RouteData(w, env, lvl, partNum, buffer) ==
  LET p == w.ps[lvl]
  IN IF p.state = SEND_TO_BLACK_HOLE THEN w
     ELSE IF p.state = SEND_TO_EMITTER
     THEN (IF env.options.bodyformat = "none" \/ WillIgnorePart(env.options, partNum)
           THEN w
           ELSE EmitData(applyDataConversion(w, lvl, buffer, env.options.strformat),
                         env, partNum))
     ELSE IF p.state = SEND_TO_SUBPARSER
     THEN FeedSubparser(applyDataConversion(w, lvl, buffer, "binarystring"),
                        env, lvl, p.subPartNum[1])
     ELSE w

\* _dispatchData, the split case: the text before the match
BeforeSplit(w, env, lvl, partNum, buffer, start) ==
  IF start > 0
  THEN dispatchData(w, env, lvl, partNum, Substring(buffer, 0, start), FALSE)
  ELSE w

\* _dispatchData, the split case: the text after the match
AfterSplit(w, env, lvl, partNum, rest, last) ==
  IF Len(rest) > 0
  THEN dispatchData(Fed(w, lvl, rest, last), env, lvl, partNum, rest, TRUE)
  ELSE w

\* _dispatchData, with the result of the split regex
SplitOrRoute(w, env, lvl, partNum, buffer, splitResult) ==
  IF splitResult.found
  THEN AfterSplit(
         whenMultipart(BeforeSplit(w, env, lvl, partNum, buffer, splitResult.index),
                       env, lvl, partNum, splitResult),
         env, lvl, partNum,
         Substring(buffer, splitResult.index + splitResult.len, Len(buffer)),
         buffer[splitResult.index + splitResult.len])
  ELSE RouteData(w, env, lvl, partNum, buffer)

\* _dispatchData, from the test of the split regex on
dispatchBody(w, env, lvl, partNum, buffer, checkSplit) ==
  IF w.err # "none" THEN w
  ELSE SplitOrRoute(w, env, lvl, partNum, buffer,
                    IF checkSplit /\ w.ps[lvl].splitRegex # <<>>
                    THEN SplitExec(w.ps[lvl].splitRegex[1], buffer) ELSE NoMatch)

\* _dispatchEOF: the end of input came while the header block was unfinished
EOFInHeadersMissed(p) == FALSE
EOFInHeaders(p) == p.state = PARSING_HEADERS

\* _dispatchEOF, PARSING_HEADERS: parse what there is and report the part
ReportUnfinished(w, env, lvl, partNum, parsed) ==
  CallEmitter(SetParser(w, lvl, parsed), env,
              Event("startPart", partNum, <<>>, parsed.headers.contentType.type))

\* _dispatchEOF, SEND_TO_SUBPARSER: pass in any lingering data, flushed
PassLingering(w, env, lvl, flushed) ==
  IF ~flushed.ok THEN [w EXCEPT !.err = "InvalidCharacterError"]
  ELSE dispatchData(Fed(w, lvl + 1, flushed.out, ""), env, lvl + 1,
                    w.ps[lvl].subPartNum[1], flushed.out, TRUE)

\* _dispatchEOF, SEND_TO_SUBPARSER: the subparser was told of the EOF and is
\* dropped
DropSubparser(w, lvl) ==
  IF w.err # "none" THEN w ELSE [w EXCEPT !.ps = SubSeq(@, 1, lvl)]

\* _dispatchEOF, otherwise: convert the lingering data, flushed, and emit it
EmitLingering(w, env, lvl, partNum, flushed) ==
  IF ~flushed.ok THEN [w EXCEPT !.err = "InvalidCharacterError"]
  ELSE IF Len(coerceData(w.ps[lvl], flushed.out, env.options.strformat, FALSE)) > 0
  THEN CallEmitter(w, env,
         Event("deliverPartData", partNum,
               coerceData(w.ps[lvl], flushed.out, env.options.strformat, FALSE), ""))
  ELSE w

\* _dispatchEOF, up to the call of endPart
BeforeEndPart(w, env, lvl, partNum) ==
  LET p == w.ps[lvl]
      lingering == p.convertData # "undefined" /\ p.savedBuffer # <<>>
  IN IF EOFInHeaders(p)
     THEN ReportUnfinished(w, env, lvl, partNum, parseHeaders(p, env.options))
     ELSE IF p.state = SEND_TO_SUBPARSER
     THEN DropSubparser(
            dispatchEOF(IF lingering
                        THEN PassLingering(w, env, lvl,
                                           ConvertData(p.convertData, p.savedBuffer, FALSE))
                        ELSE w,
                        env, lvl + 1, p.subPartNum[1]),
            lvl)
     ELSE IF lingering
     THEN EmitLingering(w, env, lvl, partNum,
                        ConvertData(p.convertData, p.savedBuffer, FALSE))
     ELSE w

\* _dispatchEOF(partNum) on parser lvl
dispatchEOF(w, env, lvl, partNum) ==
  IF w.err # "none" THEN w
  ELSE CallEmitter(BeforeEndPart(w, env, lvl, partNum), env,
                   Event("endPart", partNum, <<>>, ""))

\* _whenMultipart: the boundary ends the subpart that was being fed
endSubpartSkipped(w, env, lvl, subPartNum) == w
endSubpart(w, env, lvl, subPartNum) == dispatchEOF(w, env, lvl + 1, subPartNum)

\* _whenMultipart: the number of the next subpart and the count after it
SubPartNum(partNum, count) == partNum \o NumToString(count)
NextCountStuck(count) == count
NextCount(count) == count + 1

\* _whenMultipart: after the terminator the epilogue is ignored and no
\* further boundary is looked for
EpilogueStateLeaky == SEND_TO_EMITTER
EpilogueState == SEND_TO_BLACK_HOLE
SplitRegexKept(splitRegex) == splitRegex
SplitRegexAfterTerminator(splitRegex) == <<>>

\* _whenMultipart: the saved buffer without the line break that belongs to
\* the boundary
StripSaved(savedBuffer, lastResult) ==
  LET n == Len(savedBuffer)
      e1 == IF n >= 1 /\ savedBuffer[n] = LF THEN n - 1 ELSE n
      e2 == IF e1 >= 1 /\ savedBuffer[e1] = CR THEN e1 - 1 ELSE e1
  IN IF savedBuffer # <<>> /\ lastResult.g1 = 0
     THEN SubSeq(savedBuffer, 1, e2) ELSE savedBuffer

\* _whenMultipart: pass the saved data in
FlushSaved(w, env, lvl) ==
  IF w.ps[lvl].savedBuffer # <<>>
  THEN dispatchData(Fed(w, lvl + 1, w.ps[lvl].savedBuffer, ""), env, lvl + 1,
                    w.ps[lvl].subPartNum[1], w.ps[lvl].savedBuffer, TRUE)
  ELSE w

\* _whenMultipart: the first boundary starts the count, a later one ends the
\* subpart being fed
CloseSubpart(w, env, lvl, lastResult) ==
  LET p == w.ps[lvl]
  IN IF p.subPartNum = <<>>
     THEN SetParser(w, lvl, [p EXCEPT !.count = 1])
     ELSE endSubpart(
            FlushSaved(SetParser(w, lvl, [p EXCEPT !.savedBuffer =
                                            StripSaved(p.savedBuffer, lastResult)]),
                       env, lvl),
            env, lvl, p.subPartNum[1])

\* _whenMultipart, from the reset of the saved buffer on
OpenSubpart(w, lvl, partNum, lastResult) ==
  LET q == [w.ps[lvl] EXCEPT !.savedBuffer = <<>>]
  IN IF w.err # "none" THEN w
     ELSE IF ~lastResult.term
     THEN [Restarted(w, lvl + 1) EXCEPT
             !.ps = SubSeq(@, 1, lvl - 1)
                           \o <<[q EXCEPT !.state = SEND_TO_SUBPARSER,
                                          !.subPartNum = <<SubPartNum(partNum, q.count)>>,
                                          !.count = NextCount(q.count)],
                                resetParser(w.ps[lvl + 1])>>]
     ELSE SetParser(w, lvl, [q EXCEPT !.splitRegex = SplitRegexAfterTerminator(@),
                                      !.state = EpilogueState])

\* _whenMultipart(partNum, lastResult) on parser lvl
whenMultipart(w, env, lvl, partNum, lastResult) ==
  IF w.err # "none" THEN w
  ELSE OpenSubpart(CloseSubpart(w, env, lvl, lastResult), lvl,
                   IF partNum # <<>> THEN partNum \o <<".">> ELSE partNum,
                   lastResult)

\* deliverData and deliverEOF signal the beginning if they have not done so
StartMessageAlways(p) == TRUE
StartMessageDue(p) == ~p.triggeredCall

\* deliverData(buffer)
deliverData(w, env, packet) ==
  LET p == w.ps[1]
      joined == p.holdData \o packet
      cond == IF Len(joined) > 0 THEN conditionToEndOnCRLF(joined) ELSE <<joined, <<>>>>
      buffer == cond[1]
      w1 == SetParser(w, 1, [p EXCEPT !.holdData = cond[2]])
      wCall == CallEmitter(w1, env, Event("startMessage", <<>>, <<>>, ""))
      w2 == IF ~StartMessageDue(p) THEN w1
            ELSE IF wCall.err # "none" THEN wCall
            ELSE SetParser(wCall, 1, [wCall.ps[1] EXCEPT !.triggeredCall = TRUE])
  IN IF Len(buffer) = 0 THEN w1
     ELSE dispatchData(Fed(w2, 1, buffer, ""), env, 1, <<>>, buffer, TRUE)

\* deliverEOF()
deliverEOF(w, env) ==
  LET p == w.ps[1]
      w1 == IF ~StartMessageDue(p) THEN w
            ELSE CallEmitter(SetParser(w, 1, [p EXCEPT !.triggeredCall = TRUE]), env,
                             Event("startMessage", <<>>, <<>>, ""))
      w2 == IF p.holdData # <<>>
            THEN dispatchData(Fed(w1, 1, p.holdData, ""), env, 1, <<>>, p.holdData, TRUE)
            ELSE w1
      w3 == dispatchEOF(w2, env, 1, <<>>)
  IN CallEmitter(w3, env, Event("endMessage", <<>>, <<>>, ""))

-----------------------------------------------------------------------------
(* Messages *)

\* bounds of the exploration
MaxCount == 2       \* children of one multipart
MaxChunk == 2       \* characters of a packet that is not the whole remainder

\* the boundary of a multipart at each level of nesting
BoundaryAt(level) == <<"b", "c", "d", "e">>[level]

\* A message is rendered from a tree of parts: a leaf with an empty header
\* block and the body "x", an empty part (no header block, no body), a
\* multipart with its children, or a message/rfc822 part with the message it
\* embeds.  The line break before a delimiter belongs to the delimiter.
Part(kind, kids) == [kind |-> kind, kids |-> kids]
Simple == {Part("leaf", <<>>), Part("empty", <<>>)}

\* sequences of at most n parts, at most one of them not a leaf with a body
Leaf == Part("leaf", <<>>)
RECURSIVE KidLists(_, _)
KidLists(parts, n) ==
  IF n = 0 THEN {<<>>}
  ELSE LET shorter == KidLists(parts, n - 1)
       IN shorter \cup {Append(k, Leaf) : k \in shorter}
                  \cup {Append(k, t) : k \in {q \in shorter : \A j \in DOMAIN q : q[j] = Leaf},
                                       t \in parts \ {Leaf}}

\* the parts made of the parts below: a simple part, a message part that
\* embeds one of them, a multipart with some of them as children
Grow(below) ==
  Simple \cup {Part("message", <<t>>) : t \in below}
         \cup {Part("multipart", k) : k \in KidLists(below, MaxCount)}

\* the trees with up to three levels of parts
Trees == Grow(Grow(Simple))

\* a style of writing a message: the line break, whether multiparts have a
\* prologue and an epilogue (lines of "p"), and the type of message parts
Plain == [eol |-> <<LF>>, padded |-> TRUE, wrapper |-> MSG]
Styles == {Plain, [eol |-> <<CR, LF>>, padded |-> FALSE, wrapper |-> MSGGLOBAL]}
OldMac == [eol |-> <<CR>>, padded |-> TRUE, wrapper |-> MSGNEWS]

\* the text of a part at a level of nesting
RECURSIVE Render(_, _, _)
Render(t, style, level) ==
  LET eol == style.eol
      b == BoundaryAt(level)
      pad == IF style.padded THEN <<"p">> \o eol ELSE <<>>
      RECURSIVE Kids(_)
      Kids(j) == IF j > Len(t.kids) THEN <<>>
                 ELSE <<DASH, DASH, b>> \o eol \o Render(t.kids[j], style, level + 1)
                      \o eol \o Kids(j + 1)
  IN CASE t.kind = "empty" -> <<>>
       [] t.kind = "leaf" -> eol \o <<"x">>
       [] t.kind = "message" ->
            <<CT, style.wrapper>> \o eol \o eol \o Render(t.kids[1], style, level)
       [] t.kind = "multipart" ->
            <<CT, MPX, BND, b>> \o eol \o eol \o pad \o Kids(1)
            \o <<DASH, DASH, b, DASH, DASH>> \o eol \o pad

\* Part numbering: the k-th child of part P, and the message embedded in P
ChildPart(P, k) == (IF P = <<>> THEN <<>> ELSE P \o <<".">>) \o NumToString(k)
EmbeddedPart(P) == P \o <<"$">>

\* the part numbers of a tree whose root is numbered P, in document order
RECURSIVE ExpectedParts(_, _)
ExpectedParts(t, P) ==
  LET RECURSIVE Kids(_)
      Kids(j) == IF j > Len(t.kids) THEN <<>>
                 ELSE ExpectedParts(t.kids[j], ChildPart(P, j)) \o Kids(j + 1)
  IN <<P>> \o (CASE t.kind = "multipart" -> Kids(1)
                 [] t.kind = "message" -> ExpectedParts(t.kids[1], EmbeddedPart(P))
                 [] OTHER -> <<>>)

\* a message together with the part numbers its structure calls for
Message(text, parts) == [text |-> text, parts |-> parts]
Unknown == << <<"?">> >>

\* messages that no tree renders: a multipart inside a multipart that lacks
\* its closing delimiter, lines that only resemble a delimiter, a header
\* block that never ends, a message part whose header block is cut short by
\* the delimiter
Malformed ==
  { <<CT, MPX, BND, "b", LF, LF, DASH, DASH, "b", LF, CT, MSG, LF,
      DASH, DASH, "b", DASH, DASH, LF>>,
    <<CT, MPX, BND, "b", LF, LF, DASH, DASH, "b", LF,
      CT, MPX, BND, "c", LF, LF, DASH, DASH, "c", LF, LF, "x", LF,
      DASH, DASH, "b", LF, LF, "x", LF, DASH, DASH, "b", DASH, DASH, LF>>,
    <<CT, MPX, BND, "b", LF, LF, "x", DASH, DASH, "b", LF, DASH, DASH, "b", "x", LF,
      LF, "x", LF, SP, DASH, DASH, "b", LF, DASH, DASH, "b", DASH, DASH, SP, LF,
      DASH, DASH, "b", LF>>,
    <<CT, MSG, LF, "x", LF, CT, MPX, BND, "b", LF>> }

Rendered(trees, styles) ==
  {Message(Render(t, style, 1) \o (IF style.padded THEN style.eol ELSE <<>>),
           ExpectedParts(t, <<>>)) :
     t \in trees, style \in styles}

\* every tree with LF and with CRLF line breaks, the trees of two levels with
\* CR line breaks, and the malformed messages
Messages ==
  Rendered(Trees, Styles) \cup Rendered(Grow(Simple), {OldMac})
    \cup {Message(text, Unknown) : text \in Malformed}

-----------------------------------------------------------------------------
(* The parser in its environment *)

VARIABLES
  options,      \* the options the parser was constructed with
  parser,       \* the chain of parser instances
  phase,        \* "open" until deliverEOF has been called, then "closed"
  prior,        \* the callbacks made before the last call, without their data
  emitted,      \* the callbacks made during the last call
  thrown,       \* the error the last call raised, "none" if it returned
  script,       \* the text the caller has not delivered yet
  expected,     \* the part numbers the structure of the whole text calls for
  consumer,     \* the ways the consumer's callbacks may throw during one call
  twin,         \* a second parser fed the same packets, for comparing two runs
  emitter,      \* a header emitter and what its handler has received
  registry,     \* the structured decoders and encoders registered so far
  headers       \* a header block under examination and what was read from it

vars == <<options, parser, phase, prior, emitted, thrown, script, expected,
          consumer, twin, emitter, registry, headers>>

\* the value of a variable that a specification does not use
Unused == [on |-> FALSE]

\* a callback without its data
Bare(e) == [name |-> e.name, part |-> e.part, type |-> e.type]
BareAll(out) == [i \in DOMAIN out |-> Bare(out[i])]

\* all callbacks made so far
history == prior \o BareAll(emitted)

NoTwin == [on |-> FALSE, options |-> DefaultOptions, parser |-> <<NewParser>>,
           emitted |-> <<>>, thrown |-> "none"]
TwinWith(opts) == [NoTwin EXCEPT !.on = TRUE, !.options = opts]

\* a consumer none of whose callbacks throws
Quiet == {{}}

Start(ps) == [ps |-> ps, out |-> <<>>, calls |-> 0, err |-> "none", fed |-> <<>>]

\* one run's step
Step(w) ==
  /\ parser' = w.ps
  /\ prior' = history
  /\ emitted' = w.out
  /\ thrown' = w.err

TwinStep(w) ==
  twin' = IF twin.on THEN [twin EXCEPT !.parser = w.ps, !.emitted = w.out,
                                       !.thrown = w.err]
          ELSE twin

\* the lengths of the next packet
ChunkSizes == {n \in 0 .. Len(script) : n <= MaxChunk \/ n = Len(script)}

InitParser(opts, message) ==
  /\ options = opts
  /\ parser = <<NewParser>>
  /\ phase = "open"
  /\ prior = <<>>
  /\ emitted = <<>>
  /\ thrown = "none"
  /\ script = message.text
  /\ expected = message.parts

InitWith(opts, message) ==
  /\ InitParser(opts, message)
  /\ emitter = Unused
  /\ registry = Unused
  /\ headers = Unused

Init ==
  /\ \E message \in Messages : InitWith(DefaultOptions, message)
  /\ consumer = Quiet
  /\ twin = NoTwin

\* the caller delivers a packet
DeliverData ==
  /\ phase = "open"
  /\ thrown = "none"
  /\ \E n \in ChunkSizes, throwAt \in consumer :
       LET packet == SubSeq(script, 1, n)
       IN /\ Step(deliverData(Start(parser),
                              [options |-> options, throwAt |-> throwAt], packet))
          /\ TwinStep(deliverData(Start(twin.parser),
                                  [options |-> twin.options, throwAt |-> {}], packet))
          /\ script' = SubSeq(script, n + 1, Len(script))
  /\ UNCHANGED <<options, phase, expected, consumer, emitter, registry, headers>>

\* the caller signals the end of the message
DeliverEOF ==
  /\ phase = "open"
  /\ thrown = "none"
  /\ \E throwAt \in consumer :
       /\ Step(deliverEOF(Start(parser), [options |-> options, throwAt |-> throwAt]))
       /\ TwinStep(deliverEOF(Start(twin.parser),
                              [options |-> twin.options, throwAt |-> {}]))
  /\ phase' = "closed"
  /\ UNCHANGED <<options, script, expected, consumer, emitter, registry, headers>>

Next == DeliverData \/ DeliverEOF

Spec == Init /\ [][Next]_vars

-----------------------------------------------------------------------------
(* Reading the callbacks *)

Names(name) == {i \in DOMAIN history : history[i].name = name}
StartOf(P) == {i \in Names("startPart") : history[i].part = P}
EndOf(P) == {i \in Names("endPart") : history[i].part = P}
DataOf(P) == {i \in Names("deliverPartData") : history[i].part = P}

\* the part numbers reported, in the order of their startPart
RECURSIVE StartedUpTo(_)
StartedUpTo(i) ==
  IF i = 0 THEN <<>>
  ELSE IF history[i].name = "startPart" THEN Append(StartedUpTo(i - 1), history[i].part)
  ELSE StartedUpTo(i - 1)
Started == StartedUpTo(Len(history))

\* Q is the number of a part inside part P
Extends(Q, P) ==
  /\ Len(Q) > Len(P)
  /\ SubSeq(Q, 1, Len(P)) = P
  /\ P = <<>> \/ Q[Len(P) + 1] \in {".", "$"}

\* the parts started and not ended after the first i callbacks, outermost first
RECURSIVE OpenAfter(_)
OpenAfter(i) ==
  IF i = 0 THEN <<>>
  ELSE LET open == OpenAfter(i - 1)
           e == history[i]
       IN IF e.name = "startPart" THEN Append(open, e.part)
          ELSE IF e.name = "endPart"
          THEN SelectSeq(open, LAMBDA P : P # e.part)
          ELSE open

IsPrefix(s, t) == Len(s) <= Len(t) /\ SubSeq(t, 1, Len(s)) = s

Finished == phase = "closed" /\ script = <<>>

\* the innermost part that is open after the first i callbacks
HasOpen(i) == OpenAfter(i) # <<>>
Innermost(i) == OpenAfter(i)[Len(OpenAfter(i))]

\* the content type reported when part P was started
TypeOf(P) == history[Min(StartOf(P))].type

\* the callbacks that start a part directly inside P, before callback i
KidsBefore(P, i) ==
  {j \in Names("startPart") : j < i /\ HasOpen(j - 1) /\ Innermost(j - 1) = P}

-----------------------------------------------------------------------------
(* Ordering of the callbacks, under Spec *)

\* C1: in every run, startMessage is the first callback and is called once;
\* endMessage is called only by deliverEOF, once, and no callback follows it;
\* after deliverEOF both have been called.
C1_MessageBrackets ==
  /\ \A i \in DOMAIN history : history[i].name = "startMessage" <=> i = 1
  /\ \A i \in DOMAIN history : history[i].name = "endMessage" => i = Len(history)
  /\ Names("endMessage") # {} => phase = "closed"
  /\ phase = "closed" =>
       /\ Cardinality(Names("startMessage")) = 1
       /\ Cardinality(Names("endMessage")) = 1

\* the caller delivered only packets without a line break, holding a
\* multipart Content-Type header, before deliverEOF: every callback of the
\* run, startMessage first and endMessage last, was made by deliverEOF
C1_Witness ==
  /\ phase = "closed"
  /\ prior = <<>>
  /\ [i \in DOMAIN emitted |-> emitted[i].name]
       = <<"startMessage", "startPart", "endPart", "endMessage">>
  /\ emitted[2].type = MPX

\* C2: a deliverPartData(P) or endPart(P) is preceded by a startPart(P).
C2_StartPartFirst ==
  \A i \in DOMAIN history :
    history[i].name \in {"deliverPartData", "endPart"} =>
      \E j \in StartOf(history[i].part) : j < i

\* the end of input started a part whose header block was unfinished, after
\* an empty child of a multipart had been started and ended by two delimiters
C2_Witness ==
  /\ phase = "closed"
  /\ \E i \in DOMAIN emitted : emitted[i].name = "startPart"
  /\ \E j \in DOMAIN prior :
       /\ j < Len(prior)
       /\ prior[j].name = "startPart" /\ prior[j].part # <<>>
       /\ prior[j + 1].name = "endPart" /\ prior[j + 1].part = prior[j].part

\* C3: part events are nested and balanced.  A part is started once and
\* ended at most once; it is started inside every part that is open, and a
\* part whose number extends P is started only while P is open; data and
\* endPart are for the innermost open part; endMessage finds no part open,
\* and once the run has ended every part started has been ended.
C3_Nested ==
  /\ \A i \in DOMAIN history :
       LET e == history[i]
           open == OpenAfter(i - 1)
       IN /\ e.name = "startPart" =>
               /\ StartOf(e.part) = {i}
               /\ \A k \in DOMAIN open : Extends(e.part, open[k])
               /\ \A j \in Names("startPart") :
                    Extends(e.part, history[j].part) =>
                      \E k \in DOMAIN open : open[k] = history[j].part
          /\ e.name \in {"deliverPartData", "endPart"} =>
               open # <<>> /\ open[Len(open)] = e.part
          /\ e.name = "endPart" => EndOf(e.part) = {i}
          /\ e.name = "endMessage" => open = <<>>
  /\ phase = "closed" =>
       \A i \in Names("startPart") : Cardinality(EndOf(history[i].part)) = 1

\* a finished run in which part 2.1 was reported inside part 2
C3_Witness ==
  /\ Finished
  /\ EndOf(<<"2", ".", "1">>) # {}
  /\ EndOf(<<"2">>) # {}
  /\ EndOf(<<"1">>) # {}

\* C5: the part started directly inside a multipart P, after k - 1 others,
\* has number k when P is the root and P.k otherwise; while the parser is
\* fed a message written from a tree of parts it reports the tree's parts in
\* document order, and when the whole message has been delivered it has
\* reported all of them.
C5_Numbering ==
  /\ \A i \in Names("startPart") :
       (HasOpen(i - 1) /\ TypeOf(Innermost(i - 1)) \in {MPX, MPD}) =>
         LET P == Innermost(i - 1)
         IN history[i].part = ChildPart(P, Cardinality(KidsBefore(P, i)) + 1)
  /\ (expected # Unknown /\ phase = "open") => IsPrefix(Started, expected)
  /\ (expected # Unknown /\ Finished) => Started = expected

\* a finished run that reported the parts "", 1, 2, 2.1 and 2.2
C5_Witness ==
  /\ Finished
  /\ Started = << <<>>, <<"1">>, <<"2">>, <<"2", ".", "1">>, <<"2", ".", "2">> >>

\* the first part reported is ""; the part started directly inside a part P
\* is P$ exactly when P was reported with a message/rfc822, message/global
\* or message/news content type
EmbeddedNaming ==
  /\ Started # <<>> => Started[1] = <<>>
  /\ \A i \in Names("startPart") :
       HasOpen(i - 1) =>
         LET P == Innermost(i - 1)
         IN (TypeOf(P) \in MessageTypes) <=> (history[i].part = EmbeddedPart(P))

\* P$ was started after the start of P and ended before callback k
EmbeddedWithin(P, k) ==
  \E i \in StartOf(P), j \in StartOf(EmbeddedPart(P)), l \in EndOf(EmbeddedPart(P)) :
    i < j /\ j < l /\ l < k

\* C6 as stated: the naming above, and whenever a part P of a message type
\* is ended, P$ has been started after the start of P and ended before.
C6_Embedded ==
  /\ EmbeddedNaming
  /\ \A k \in Names("endPart") :
       LET P == history[k].part
       IN (StartOf(P) # {} /\ TypeOf(P) \in MessageTypes) => EmbeddedWithin(P, k)

\* C6 amended: the naming above; whenever a part P of a message type is
\* ended, either P$ has been started after the start of P and ended before,
\* or endPart(P) is the callback right after startPart(P): the text of P
\* ended inside its header block, and no embedded message is reported.  A
\* message written from a tree of parts and delivered in full has a P$ for
\* every part P of a message type.
C6_EmbeddedOnceInBody ==
  /\ EmbeddedNaming
  /\ \A k \in Names("endPart") :
       LET P == history[k].part
       IN (StartOf(P) # {} /\ TypeOf(P) \in MessageTypes) =>
            \/ EmbeddedWithin(P, k)
            \/ k - 1 \in StartOf(P)
  /\ (expected # Unknown /\ Finished) =>
       \A i \in Names("startPart") :
         history[i].type \in MessageTypes => StartOf(EmbeddedPart(history[i].part)) # {}

\* a finished run over a multipart whose first child is a message/global
\* part: the parts 1 and 1$ were reported
C6_Witness ==
  /\ Finished
  /\ EndOf(<<"1", "$">>) # {}
  /\ TypeOf(<<"1">>) = MSGGLOBAL

-----------------------------------------------------------------------------
(* Body data and the body formats, under SpecFormats *)

\* the values of bodyformat
BodyFormats == {"none", "raw", "nodecode", "decode"}

InitFormats ==
  /\ \E message \in Rendered(Trees, {Plain}), format \in BodyFormats :
       InitWith([DefaultOptions EXCEPT !.bodyformat = format], message)
  /\ consumer = Quiet
  /\ twin = NoTwin

SpecFormats == InitFormats /\ [][Next]_vars

\* no part is started inside a part that receives data, before or after the
\* data
NoPartInsideData ==
  \A i \in Names("deliverPartData"), j \in Names("startPart") :
    ~Extends(history[j].part, history[i].part)

\* the data of this call goes to open parts that are not multiparts, and holds
\* none of the lines before the first and after the last delimiter of a
\* multipart (written as lines of "p")
NoMultipartData ==
  \A i \in DOMAIN emitted :
    emitted[i].name = "deliverPartData" =>
      /\ \A k \in DOMAIN emitted[i].data : emitted[i].data[k] # "p"
      /\ HasOpen(Len(prior) + i - 1)
      /\ TypeOf(emitted[i].part) \notin {MPX, MPD}

\* C9 as stated: in any run no part is started inside a part that receives
\* data, and the prologue and the epilogue of a multipart are never delivered
\* as data.
C9_LeafData == NoPartInsideData /\ NoMultipartData

\* C9: no part is started inside a part that receives data; unless bodyformat
\* is raw, data goes only to parts that are not multiparts and the prologue
\* and the epilogue of a multipart are never delivered.  (With bodyformat raw
\* the part pruned at, by default the root, receives its whole body as data.)
C9_LeafDataUnlessRaw ==
  /\ NoPartInsideData
  /\ options.bodyformat # "raw" => NoMultipartData

\* a finished run, bodyformat not raw, over a multipart with a prologue and an
\* epilogue whose first child is a message/rfc822 part with a body that was
\* delivered
C9_Witness ==
  /\ Finished
  /\ options.bodyformat = "nodecode"
  /\ history[2].type = MPX
  /\ StartOf(<<"1">>) # {} /\ TypeOf(<<"1">>) = MSG
  /\ DataOf(<<"1", "$">>) # {}

-----------------------------------------------------------------------------
(* Errors raised by the parser, under SpecOptions *)

\* the documented values of the options
OptionChoices ==
  [pruneat : {<<>>, <<"1">>},
   bodyformat : BodyFormats,
   strformat : {"binarystring", "unicode", "typedarray"},
   stripcontinuations : BOOLEAN,
   charset : {<<>>, <<UTF8>>},
   forcecharset : BOOLEAN,
   onerror : {"swallow"}]

\* messages with a charset and a transfer encoding: base64 text with padding
\* in the first of two lines, text in an unknown charset named in a folded
\* header, quoted-printable text with an escape and a soft line break, a
\* multipart with a base64 child, a message/rfc822 part in base64
EncodedMessages ==
  { <<CT, TXT, CHS, UTF8, LF, CTE, B64, LF, LF,
      "x", "x", EQ, EQ, LF, "x", "x", "x", "x", LF>>,
    <<CT, TXT, LF, SP, CHS, BOGUS, LF, LF, "x", LF>>,
    <<CTE, QP, LF, LF, "x", EQ, "4", "1", LF, "x", EQ, LF, "x", LF>>,
    <<CT, MPX, BND, "b", LF, LF, DASH, DASH, "b", LF, CTE, B64, LF, LF,
      "x", "x", "x", "x", LF, DASH, DASH, "b", DASH, DASH, LF>>,
    <<CT, MSG, LF, CTE, B64, LF, LF, "x", "x", "x", "x", LF>> }

InitOptions ==
  /\ \E opts \in OptionChoices, text \in EncodedMessages :
       InitWith(opts, Message(text, Unknown))
  /\ consumer = Quiet
  /\ twin = NoTwin

SpecOptions == InitOptions /\ [][Next]_vars

\* C4 as stated: no call raises an error (no consumer callback throws in
\* these runs), and a run that has ended has reported startPart("") and
\* endPart("").
C4_NeverRaises ==
  /\ thrown = "none"
  /\ phase = "closed" => StartOf(<<>>) # {} /\ EndOf(<<>>) # {}

\* the errors the calls raise
C4_RaisesRangeError == thrown = "RangeError"
C4_RaisesInvalidCharacter == thrown = "InvalidCharacterError"

-----------------------------------------------------------------------------
(* Pruning, under SpecPrune *)

\* the values of pruneat tried
PruneTargets == { <<"1">>, <<"$">>, <<"1", "$">>, <<"2", ".", "1">> }

\* a multipart with ten empty children
TenChildren ==
  LET RECURSIVE Delimiters(_)
      Delimiters(n) == IF n = 0 THEN <<>>
                       ELSE <<DASH, DASH, "b", LF>> \o Delimiters(n - 1)
  IN Message(<<CT, MPX, BND, "b", LF, LF>> \o Delimiters(10)
               \o <<DASH, DASH, "b", DASH, DASH, LF>>,
             Unknown)

\* the parser prunes at X; its twin is given the same options but pruneat ""
InitPrune ==
  /\ \E message \in Rendered(Trees, {Plain}) \cup {TenChildren},
        X \in PruneTargets, format \in {"none", "nodecode"} :
       LET opts == [DefaultOptions EXCEPT !.bodyformat = format]
       IN /\ InitWith([opts EXCEPT !.pruneat = X], message)
          /\ twin = TwinWith(opts)
  /\ consumer = Quiet

SpecPrune == InitPrune /\ [][Next]_vars

\* the part numbers the claim says are kept when pruning at X
Retained(X, part) ==
  \/ part = X
  \/ /\ Len(part) > Len(X)
     /\ SubSeq(part, 1, Len(X)) = X
     /\ part[Len(X) + 1] \in {".", "$"}

RetainedCallback(e) ==
  e.name \in {"startMessage", "endMessage"} \/ Retained(options.pruneat, e.part)

\* C7: during every call the pruning parser makes exactly the callbacks its
\* twin makes, with the same arguments, that are startMessage, endMessage or
\* for a part whose number is X or X followed by "." or "$" and more.
C7_Pruned ==
  /\ thrown = "none" /\ twin.thrown = "none"
  /\ emitted = SelectSeq(twin.emitted, RetainedCallback)

\* pruning at 1, one call in which the twin reported parts 1 and 10 and the
\* pruning parser reported part 1
C7_Witness ==
  /\ options.pruneat = <<"1">>
  /\ \E i \in DOMAIN twin.emitted : twin.emitted[i].part = <<"1", "0">>
  /\ \E i \in DOMAIN emitted : emitted[i].part = <<"1">>
  /\ Len(emitted) < Len(twin.emitted)

-----------------------------------------------------------------------------
(* A consumer that throws, under SpecThrow *)

\* during one call the consumer's first callback throws, or its second, or
\* none does
Throwing == {{}, {1}, {2}}

\* the twin's consumer never throws
InitThrow ==
  /\ \E message \in Rendered(Trees, {Plain}), handler \in {"swallow", "rethrow"} :
       InitWith([DefaultOptions EXCEPT !.onerror = handler], message)
  /\ consumer = Throwing
  /\ twin = TwinWith(DefaultOptions)

SpecThrow == InitThrow /\ [][Next]_vars

Untagged(out) == [i \in DOMAIN out |-> [out[i] EXCEPT !.threw = FALSE]]

\* C8: with the default onerror no call raises an error although callbacks
\* throw; after every call the parser is in the state of its twin, whose
\* consumer never throws, and has made the same callbacks with the same
\* arguments.
C8_Swallowed ==
  options.onerror = "swallow" =>
    /\ thrown = "none"
    /\ parser = twin.parser
    /\ Untagged(emitted) = twin.emitted

\* a call with the default onerror in which a startPart callback threw and
\* further callbacks followed, after earlier calls
C8_Witness ==
  /\ options.onerror = "swallow"
  /\ prior # <<>>
  /\ \E i \in DOMAIN emitted :
       emitted[i].threw /\ emitted[i].name = "startPart" /\ i < Len(emitted)

-----------------------------------------------------------------------------
(* The multipart/mixed; boundary=frontier example, under SpecFrontier *)

FRONTIER == "frontier"

\* the body has three delimiter lines, the closing one first, second or
\* last; between them there are part texts or nothing
Frontier(closing, eol, filled) ==
  LET open == <<DASH, DASH, FRONTIER>> \o eol
      close == <<DASH, DASH, FRONTIER, DASH, DASH>> \o eol
      text == IF filled THEN eol \o <<"x">> \o eol ELSE <<>>
      Line(k) == (IF k = closing THEN close ELSE open) \o text
      RECURSIVE Numbers(_)
      Numbers(n) == IF n = 0 THEN <<>> ELSE Append(Numbers(n - 1), NumToString(n))
  IN Message(<<CT, MPX, BND, FRONTIER>> \o eol \o eol \o Line(1) \o Line(2) \o Line(3),
             << <<>> >> \o Numbers(closing - 1))

InitFrontier ==
  /\ \E closing \in 1 .. 3, eol \in {<<LF>>, <<CR, LF>>}, filled \in BOOLEAN :
       InitWith(DefaultOptions, Frontier(closing, eol, filled))
  /\ consumer = Quiet
  /\ twin = NoTwin

SpecFrontier == InitFrontier /\ [][Next]_vars

\* C10 as stated: when the whole message has been parsed, exactly one child
\* part has been reported, numbered 1.
C10_OneChild == Finished => Started = << <<>>, <<"1">> >>

\* C10 amended: when the whole message has been parsed, one child part has
\* been reported for each --frontier line that precedes the --frontier--
\* line, numbered 1, 2, ... in order: two parts when the closing line comes
\* last, one when it comes second, none when it comes first.
C10_ChildPerDelimiter == Finished => Started = expected

\* the closing line came last and parts 1 and 2 were reported
C10_Witness ==
  /\ Finished
  /\ Started = << <<>>, <<"1">>, <<"2">> >>
  /\ EndOf(<<"2">>) # {}

-----------------------------------------------------------------------------
(* The header emitter of src/mimeutils.js *)

\* an option that was not given; an option that was given is <<value>>
Undefined == <<>>
Given(value) == <<value>>

\* a parser that is constructed and never fed
ParserAside ==
  /\ options = DefaultOptions
  /\ parser = <<NewParser>>
  /\ phase = "open"
  /\ prior = <<>>
  /\ emitted = <<>>
  /\ thrown = "none"
  /\ script = <<>>
  /\ expected = {}
  /\ consumer = Quiet
  /\ twin = NoTwin

parserVars == <<options, parser, phase, prior, emitted, thrown, script,
                expected, consumer, twin>>

\* clamp(value, min, max, def)
clamp(value, min, max, def) ==
  IF value = Undefined THEN def
  ELSE IF value[1] < min THEN min
  ELSE IF value[1] > max THEN max
  ELSE value[1]

\* the hard margin as the constructor computes it from the soft margin
HardMarginOf(opts, softMargin) == clamp(opts.hardMargin, softMargin, 998, 332)

\* new HeaderEmitter(handler, options); sink is what the handler has been
\* given by deliverData, err the error the last call threw
HeaderEmitter(opts) ==
  [on |-> TRUE,
   built |-> TRUE,
   options |-> opts,
   useASCII |-> IF opts.useASCII = Undefined THEN TRUE ELSE opts.useASCII[1],
   currentLine |-> <<>>,
   softMargin |-> clamp(opts.softMargin, 30, 900, 78),
   hardMargin |-> HardMarginOf(opts, clamp(opts.softMargin, 30, 900, 78)),
   preferredBreakpoint |-> 0,
   sink |-> <<>>,
   eof |-> FALSE,
   err |-> "none",
   \* kept by the model: the calls made so far, the number of lines that
   \* had been delivered when the header being written was begun, and the
   \* octet ranges handed to _addRFC2047Word with the useQP of each
   calls |-> 0,
   headerFrom |-> 0,
   words |-> <<>>,
   viaQP |-> <<>>]

\* the options of an emitter that is about to be constructed
Unbuilt(opts) == [on |-> TRUE, built |-> FALSE, options |-> opts]

EmitterOptions(soft, hard, ascii) ==
  [softMargin |-> soft, hardMargin |-> hard, useASCII |-> ascii]

-----------------------------------------------------------------------------
(* The margins of a new emitter, under SpecMargins *)

\* margins around every limit the constructor knows
MarginChoices ==
  {Undefined} \cup
  {Given(n) : n \in {-1, 0, 29, 30, 31, 77, 78, 79, 331, 332, 333, 400,
                     899, 900, 901, 997, 998, 999}}

InitMargins ==
  /\ ParserAside
  /\ registry = Unused
  /\ headers = Unused
  /\ \E soft \in MarginChoices, hard \in MarginChoices :
       emitter = Unbuilt(EmitterOptions(soft, hard, Undefined))

\* makeStreamingEmitter(handler, options)
Construct ==
  /\ ~emitter.built
  /\ emitter' = HeaderEmitter(emitter.options)
  /\ UNCHANGED <<parserVars, registry, headers>>

SpecMargins == InitMargins /\ [][Construct]_vars

\* C13: after construction 30 <= softMargin <= 900 and
\* softMargin <= hardMargin <= 998, whatever the options were
C13_Margins ==
  emitter.built =>
    /\ 30 <= emitter.softMargin /\ emitter.softMargin <= 900
    /\ emitter.softMargin <= emitter.hardMargin /\ emitter.hardMargin <= 998

\* C13, the part that holds: the soft margin is within [30, 900] and is 78
\* when omitted, the hard margin is at most 998 and is 332 when omitted, and
\* a hard margin that is given is at least the soft margin
C13_MarginsWhenGiven ==
  emitter.built =>
    /\ 30 <= emitter.softMargin /\ emitter.softMargin <= 900
    /\ emitter.hardMargin <= 998
    /\ emitter.options.softMargin = Undefined => emitter.softMargin = 78
    /\ emitter.options.hardMargin = Undefined => emitter.hardMargin = 332
    /\ emitter.options.hardMargin # Undefined =>
         emitter.softMargin <= emitter.hardMargin

\* a soft margin above the default hard margin, and no hard margin given
C13_Witness ==
  /\ emitter.built
  /\ emitter.options.hardMargin = Undefined
  /\ emitter.softMargin > emitter.hardMargin

-----------------------------------------------------------------------------
(* The emitter's low-level methods *)

\* the call throws: the emitter stays as the call left it
Throw(e, error) == [e EXCEPT !.err = error]

\* _commitLine(count): the handler receives the line at once
commitLine(e, count) ==
  [e EXCEPT
     !.sink = Append(@, (IF count # Undefined
                         THEN TrimRight(Substring(e.currentLine, 0, count[1]))
                         ELSE TrimRight(e.currentLine)) \o <<CR, LF>>),
     !.currentLine =
        IF count # Undefined
        THEN <<SP>> \o TrimLeft(Substring(e.currentLine, count[1],
                                          Len(e.currentLine)))
        ELSE <<>>,
     !.preferredBreakpoint = 0]

\* this._currentLine.length + length <= margin
Fits(e, length, margin) == Len(e.currentLine) + length <= margin

\* the emitter after _reserveTokenSpace and the value it returned
Reserved(e, ok) == [e |-> e, ok |-> ok]

\* _reserveTokenSpace, its last statement
ReserveVerdict(e, length) == Reserved(e, Fits(e, length, e.hardMargin))

\* _reserveTokenSpace breaking the line where it ends without the test against
\* the hard margin
ReserveBreaking(e, length) ==
  ReserveVerdict(IF Len(e.currentLine) > 0
                 THEN commitLine(e, Given(Len(e.currentLine)))
                 ELSE e,
                 length)

\* _reserveTokenSpace from the test against the hard margin on
ReserveHard(e, length) ==
  IF Fits(e, length, e.hardMargin) THEN Reserved(e, TRUE)
  ELSE ReserveVerdict(IF Len(e.currentLine) > 0
                      THEN commitLine(e, Given(Len(e.currentLine)))
                      ELSE e,
                      length)

\* _reserveTokenSpace after the break at the preferred breakpoint
ReserveAfterBreak(e, length) ==
  IF Fits(e, length, e.softMargin) THEN Reserved(e, TRUE)
  ELSE ReserveHard(e, length)

\* _reserveTokenSpace(length)
reserveTokenSpace(e, length) ==
  IF Fits(e, length, e.softMargin) THEN Reserved(e, TRUE)
  ELSE IF e.preferredBreakpoint > 0
       THEN ReserveAfterBreak(commitLine(e, Given(e.preferredBreakpoint)), length)
       ELSE ReserveHard(e, length)

\* text[text.length - 1] != ' '
EndsInSpace(text) == text # <<>> /\ text[Len(text)] = SP

\* addText once the space is reserved
AppendText(e, text, mayBreakAfter) ==
  [e EXCEPT
     !.currentLine = @ \o text \o (IF mayBreakAfter /\ ~EndsInSpace(text)
                                   THEN <<SP>> ELSE <<>>),
     !.preferredBreakpoint = IF mayBreakAfter
                             THEN Len(e.currentLine) + Len(text) ELSE @]

AddReserved(r, text, mayBreakAfter) ==
  IF ~r.ok THEN Throw(r.e, "Error") ELSE AppendText(r.e, text, mayBreakAfter)

\* addText(text, mayBreakAfter)
addText(e, text, mayBreakAfter) ==
  AddReserved(reserveTokenSpace(e, Len(text)), text, mayBreakAfter)

\* addText without the test of the space left
addTextUnreserved(e, text, mayBreakAfter) ==
  AppendText(reserveTokenSpace(e, Len(text)).e, text, mayBreakAfter)

DQUOTE == "\""
BACKSLASH == "\\"

\* text.replace(/["\\]/g, "\\$&")
RECURSIVE EscapeQuotes(_)
EscapeQuotes(text) ==
  IF text = <<>> THEN <<>>
  ELSE (IF Head(text) \in {DQUOTE, BACKSLASH} THEN <<BACKSLASH, Head(text)>>
        ELSE <<Head(text)>>) \o EscapeQuotes(Tail(text))

\* addQuotable: is the text to be quoted ?
NeedsQuote(text, qchars) ==
  /\ ~(text[1] = DQUOTE /\ text[Len(text)] = DQUOTE)
  /\ \E i \in DOMAIN text : text[i] \in qchars

\* addQuotable(text, qchars, mayBreakAfter); qchars is a set of characters
addQuotable(e, text, qchars, mayBreakAfter) ==
  IF Len(text) = 0 THEN e
  ELSE addText(e,
               IF NeedsQuote(text, qchars)
               THEN <<DQUOTE>> \o EscapeQuotes(text) \o <<DQUOTE>> ELSE text,
               mayBreakAfter)

\* addHeaderName, its first two statements: the line of the previous header
HeaderBreak(e) ==
  IF Len(TrimRight(e.currentLine)) > 0
  THEN commitLine([e EXCEPT !.currentLine = TrimRight(@)], Undefined)
  ELSE [e EXCEPT !.currentLine = TrimRight(@)]

COLON == ":"

\* addHeaderName(name)
addHeaderName(e, name) == addText(HeaderBreak(e), name \o <<COLON, SP>>, TRUE)

\* finish(deliverEOF)
finish(e, sendEOF) == [commitLine(e, Undefined) EXCEPT !.eof = @ \/ sendEOF]

-----------------------------------------------------------------------------
(* Characters and octets.  A character of the emitter's text is a string   *)
(* of length one when it is printable ASCII, CR or LF for the two line      *)
(* breaks, and a name such as "U+00E9" when it is outside ASCII.            *)

\* the printable ASCII characters, from 0x20 to 0x7e ("GRAVE" is 0x60)
Printable ==
  <<" ", "!", "\"", "#", "$", "%", "&", "'", "(", ")", "*", "+", ",", "-", ".", "/",
    "0", "1", "2", "3", "4", "5", "6", "7", "8", "9", ":", ";", "<", "=", ">", "?",
    "@", "A", "B", "C", "D", "E", "F", "G", "H", "I", "J", "K", "L", "M", "N", "O",
    "P", "Q", "R", "S", "T", "U", "V", "W", "X", "Y", "Z", "[", "\\", "]", "^", "_",
    "GRAVE", "a", "b", "c", "d", "e", "f", "g", "h", "i", "j", "k", "l", "m", "n", "o",
    "p", "q", "r", "s", "t", "u", "v", "w", "x", "y", "z", "{", "|", "}", "~">>

\* the characters outside ASCII that the texts of the model use, with
\* their code points: two, three and four octets in UTF-8
WideChars == {"U+00E9", "U+20AC", "U+1F600"}
REPLACEMENT == "U+FFFD"

\* text.codePointAt()
CodePoint(c) ==
  CASE c = "U+00E9" -> 233
    [] c = "U+20AC" -> 8364
    [] c = "U+1F600" -> 128512
    [] c = REPLACEMENT -> 65533
    [] c = CR -> 13
    [] c = LF -> 10
    [] OTHER -> 31 + (CHOOSE i \in DOMAIN Printable : Printable[i] = c)

\* String.fromCodePoint(n), U+FFFD for a code point the model has no name for
CharOfCode(n) ==
  CASE n = 233 -> "U+00E9"
    [] n = 8364 -> "U+20AC"
    [] n = 128512 -> "U+1F600"
    [] n = 13 -> CR
    [] n = 10 -> LF
    [] n >= 32 /\ n <= 126 -> Printable[n - 31]
    [] OTHER -> REPLACEMENT

\* the UTF-8 octets of a code point
Utf8Of(n) ==
  IF n < 128 THEN <<n>>
  ELSE IF n < 2048 THEN <<192 + (n \div 64), 128 + (n % 64)>>
  ELSE IF n < 65536
  THEN <<224 + (n \div 4096), 128 + ((n \div 64) % 64), 128 + (n % 64)>>
  ELSE <<240 + (n \div 262144), 128 + ((n \div 4096) % 64),
         128 + ((n \div 64) % 64), 128 + (n % 64)>>

\* new TextEncoder("UTF-8").encode(text)
RECURSIVE TextEncode(_)
TextEncode(text) ==
  IF text = <<>> THEN <<>> ELSE Utf8Of(CodePoint(Head(text))) \o TextEncode(Tail(text))

\* (octet & 0xC0) == 0x80
IsContinuation(octet) == (octet \div 64) % 4 = 2

\* the number of octets of the character a lead octet begins, 0 for an
\* octet that begins none
Utf8Need(lead) ==
  IF lead < 128 THEN 1
  ELSE IF lead \in 192..223 THEN 2
  ELSE IF lead \in 224..239 THEN 3
  ELSE IF lead \in 240..247 THEN 4
  ELSE 0

-----------------------------------------------------------------------------
(* RFC 2047 encoding *)

b64Prelude == <<"=", "?", "U", "T", "F", "-", "8", "?", "B", "?">>
qpPrelude == <<"=", "?", "U", "T", "F", "-", "8", "?", "Q", "?">>
qpForbidden == {"=", "?", "_", "(", ")", "\""}
hexString == <<"0", "1", "2", "3", "4", "5", "6", "7", "8", "9",
               "a", "b", "c", "d", "e", "f">>

\* must the octet be written as =XX in a Q encoded-word ?
QpEscaped(octet) ==
  octet < 32 \/ octet >= 127 \/ CharOfCode(octet) \in qpForbidden

\* the loop body of _addRFC2047Word for one octet
QpToken(octet) ==
  IF QpEscaped(octet)
  THEN <<EQ, hexString[(octet \div 16) + 1], hexString[(octet % 16) + 1]>>
  ELSE IF octet = 32 THEN <<"_">>
  ELSE <<CharOfCode(octet)>>

RECURSIVE QpTokens(_)
QpTokens(octets) ==
  IF octets = <<>> THEN <<>> ELSE QpToken(Head(octets)) \o QpTokens(Tail(octets))

Base64Char(v) == Base64Alphabet[v + 1]

\* the platform's btoa() on a binary string
RECURSIVE btoa(_)
btoa(b) ==
  IF b = <<>> THEN <<>>
  ELSE IF Len(b) = 1
  THEN <<Base64Char(b[1] \div 4), Base64Char((b[1] % 4) * 16), EQ, EQ>>
  ELSE IF Len(b) = 2
  THEN <<Base64Char(b[1] \div 4), Base64Char(((b[1] % 4) * 16) + (b[2] \div 16)),
         Base64Char((b[2] % 16) * 4), EQ>>
  ELSE <<Base64Char(b[1] \div 4), Base64Char(((b[1] % 4) * 16) + (b[2] \div 16)),
         Base64Char(((b[2] % 16) * 4) + (b[3] \div 64)), Base64Char(b[3] % 64)>>
       \o btoa(SubSeq(b, 4, Len(b)))

\* the token _addRFC2047Word builds
RFC2047Word(encodedText, useQP) ==
  IF useQP THEN qpPrelude \o QpTokens(encodedText) \o <<"?", EQ>>
  ELSE b64Prelude \o btoa(encodedText) \o <<"?", EQ>>

\* _addRFC2047Word(encodedText, useQP, mayBreakAfter); words records the
\* octet ranges handed over since the emitter was made, viaQP the encoding
\* asked for each
addRFC2047Word(e, encodedText, useQP, mayBreakAfter) ==
  addText([e EXCEPT !.words = Append(@, encodedText), !.viaQP = Append(@, useQP)],
          RFC2047Word(encodedText, useQP), mayBreakAfter)

\* b64Inc and qpInc of encodeRFC2047Phrase
B64Inc(i, start) == IF (i - start) % 3 = 0 THEN 4 ELSE 0
QpInc(octet) == IF QpEscaped(octet) THEN 3 ELSE 1

\* a split that does not go back to the start of the character
BacktrackNever(encodedText, i) == i

\* while ((encodedText[i] & 0xC0) == 0x80) --i;
RECURSIVE Backtrack(_, _)
Backtrack(encodedText, i) ==
  IF i >= 0 /\ IsContinuation(encodedText[i + 1]) THEN Backtrack(encodedText, i - 1)
  ELSE i

\* the loop of encodeRFC2047Phrase from octet i on, and the statements
\* after it
RECURSIVE EncodeFrom(_, _, _, _, _, _, _, _)
RECURSIVE SplitWord(_, _, _, _, _, _)
EncodeFrom(e, encodedText, i, start, b64Len, qpLen, maxChars, mayBreakAfter) ==
  IF e.err # "none" THEN e
  ELSE IF i >= Len(encodedText)
  THEN addRFC2047Word(e, Substring(encodedText, start, Len(encodedText)),
                      b64Len >= qpLen, mayBreakAfter)
  ELSE IF /\ b64Len + B64Inc(i, start) > maxChars
          /\ qpLen + QpInc(encodedText[i + 1]) > maxChars
  THEN SplitWord(e, encodedText, Backtrack(encodedText, i), start,
                 b64Len >= qpLen, mayBreakAfter)
  ELSE EncodeFrom(e, encodedText, i + 1, start, b64Len + B64Inc(i, start),
                  qpLen + QpInc(encodedText[i + 1]), maxChars, mayBreakAfter)

\* the word up to octet i is added and the next one begins at i
SplitWord(e, encodedText, i, start, useQP, mayBreakAfter) ==
  EncodeFrom(addRFC2047Word(e, Substring(encodedText, start, i), useQP, TRUE),
             encodedText, i, i, 0, 0, e.softMargin - Len(b64Prelude) - 3,
             mayBreakAfter)

\* encodeRFC2047Phrase once room for one token has been looked for
EncodeReserved(r, encodedText, mayBreakAfter) ==
  IF r.ok
  THEN EncodeFrom(r.e, encodedText, 0, 0, 0, 0,
                  (r.e.softMargin - Len(r.e.currentLine)) - (Len(b64Prelude) + 2),
                  mayBreakAfter)
  ELSE EncodeFrom(commitLine(r.e, Given(Len(r.e.currentLine))), encodedText,
                  0, 0, 0, 0,
                  (r.e.softMargin - 1) - (Len(b64Prelude) + 2), mayBreakAfter)

\* encodeRFC2047Phrase(text, mayBreakAfter)
encodeRFC2047Phrase(e, text, mayBreakAfter) ==
  EncodeReserved(reserveTokenSpace(e, Len(b64Prelude) + 10), TextEncode(text),
                 mayBreakAfter)

-----------------------------------------------------------------------------
(* Phrases and unstructured text *)

\* text.replace(/[ \t\r\n]+/g, " ")
RECURSIVE CollapseSpace(_)
CollapseSpace(text) ==
  IF text = <<>> THEN <<>>
  ELSE IF IsWsp(Head(text)) THEN <<SP>> \o CollapseSpace(TrimLeft(Tail(text)))
  ELSE <<Head(text)>> \o CollapseSpace(Tail(text))

\* nonAsciiRe.test(text), /[^\x20-\x7e]/
NonAscii(text) ==
  \E i \in DOMAIN text : CodePoint(text[i]) < 32 \/ CodePoint(text[i]) > 126

\* text.length, in UTF-16 code units
RECURSIVE Utf16Length(_)
Utf16Length(text) ==
  IF text = <<>> THEN 0
  ELSE (IF CodePoint(Head(text)) >= 65536 THEN 2 ELSE 1) + Utf16Length(Tail(text))

\* s.split(ch), the word being read carried along
RECURSIVE SplitOn(_, _, _)
SplitOn(s, ch, word) ==
  IF s = <<>> THEN <<word>>
  ELSE IF Head(s) = ch THEN <<word>> \o SplitOn(Tail(s), ch, <<>>)
  ELSE SplitOn(Tail(s), ch, Append(word, Head(s)))

\* addPhrase, the loop over the words
RECURSIVE AddWords(_, _, _, _)
AddWords(e, words, qchars, mayBreakAfter) ==
  IF e.err # "none" \/ words = <<>> THEN e
  ELSE AddWords(addQuotable(e, Head(words), qchars,
                            IF Len(words) = 1 THEN mayBreakAfter ELSE TRUE),
                Tail(words), qchars, mayBreakAfter)

\* addPhrase, after addQuotable took the whole text: the last space becomes
\* a breakpoint
PhraseBreakpoint(e, text) ==
  IF /\ e.preferredBreakpoint = 0
     /\ \E i \in DOMAIN text : text[i] = SP
     /\ (e.currentLine = <<>> \/ e.currentLine[Len(e.currentLine)] # DQUOTE)
  THEN [e EXCEPT !.preferredBreakpoint =
                    LastIndexOf(e.currentLine, SP, Len(e.currentLine))]
  ELSE e

\* addPhrase, the try block and what follows when it threw
WholePhrase(attempt, text, qchars, mayBreakAfter) ==
  IF attempt.err = "none" THEN PhraseBreakpoint(attempt, text)
  ELSE AddWords([attempt EXCEPT !.err = "none"], SplitOn(text, SP, <<>>),
                qchars, mayBreakAfter)

\* addPhrase once the white space is collapsed
AddCollapsed(e, text, qchars, mayBreakAfter) ==
  IF e.useASCII /\ NonAscii(text) THEN encodeRFC2047Phrase(e, text, mayBreakAfter)
  ELSE IF Utf16Length(text) < e.softMargin
  THEN WholePhrase(addQuotable(e, text, qchars, mayBreakAfter), text, qchars,
                   mayBreakAfter)
  ELSE AddWords(e, SplitOn(text, SP, <<>>), qchars, mayBreakAfter)

\* addPhrase(text, qchars, mayBreakAfter)
addPhrase(e, text, qchars, mayBreakAfter) ==
  AddCollapsed(e, CollapseSpace(text), qchars, mayBreakAfter)

\* addUnstructured(text)
addUnstructured(e, text) ==
  IF Len(text) = 0 THEN e ELSE addPhrase(e, text, {}, FALSE)

-----------------------------------------------------------------------------
(* RFC 2047 decoding, src/headerparser.js.  The octets are kept as         *)
(* numbers here, so that what was encoded can be compared with what is     *)
(* decoded.                                                                 *)

\* the replace() of decode_qp with every octet kept
RECURSIVE QpOctets(_)
QpOctets(s) ==
  IF s = <<>> THEN <<>>
  ELSE IF Head(s) # EQ THEN <<CodePoint(Head(s))>> \o QpOctets(Tail(s))
  ELSE IF Len(s) >= 3 /\ IsHex(s[2]) /\ IsHex(s[3])
  THEN <<16 * HexVal(s[2]) + HexVal(s[3])>> \o QpOctets(SubSeq(s, 4, Len(s)))
  ELSE IF BoundaryTailAt(s, 1) >= 0
  THEN QpOctets(SubSeq(s, 2 + BoundaryTailAt(s, 1), Len(s)))
  ELSE <<CodePoint(EQ)>> \o QpOctets(Tail(s))

\* the octets of a run of base64 characters without padding, every octet kept
RECURSIVE Base64Values(_)
Base64Values(s) ==
  IF Len(s) < 2 THEN <<>>
  ELSE IF Len(s) = 2
  THEN <<(64 * Base64Val(s[1]) + Base64Val(s[2])) \div 16>>
  ELSE IF Len(s) = 3
  THEN <<(64 * Base64Val(s[1]) + Base64Val(s[2])) \div 16,
         ((4096 * Base64Val(s[1]) + 64 * Base64Val(s[2]) + Base64Val(s[3])) \div 4)
           % 256>>
  ELSE <<(64 * Base64Val(s[1]) + Base64Val(s[2])) \div 16,
         ((4096 * Base64Val(s[1]) + 64 * Base64Val(s[2]) + Base64Val(s[3])) \div 4)
           % 256,
         (64 * Base64Val(s[3]) + Base64Val(s[4])) % 256>>
       \o Base64Values(SubSeq(s, 5, Len(s)))

\* the '=' that atob() drops from the end
AtobPadding(s) ==
  IF Len(s) % 4 = 0 /\ Len(s) >= 2 /\ s[Len(s)] = EQ /\ s[Len(s) - 1] = EQ THEN 2
  ELSE IF Len(s) % 4 = 0 /\ Len(s) >= 1 /\ s[Len(s)] = EQ THEN 1
  ELSE 0

\* sanitize.substring(0, sanitize.length - excess)
WholeGroups(text) == SubSeq(text, 1, Len(text) - (Len(text) % 4))

\* mimeutils.decode_base64(text, false)[0] with every octet kept
Base64Decoded(text) ==
  Base64Values(SubSeq(WholeGroups(text), 1,
                      Len(WholeGroups(text)) - AtobPadding(WholeGroups(text))))

\* does the atob() inside decode_base64(text, false) return ?
Base64Decodes(text) == atob(WholeGroups(text)).ok

\* a decoder that leaves the underscores of a Q encoded-word alone
UnderscoresKept(text) == text

\* text.replace(/_/g, ' ')
UnderscoresToSpaces(text) == [i \in DOMAIN text |-> IF text[i] = "_" THEN SP ELSE text[i]]

\* the code point of a whole character of need octets
Utf8Value(b, need) ==
  IF need = 1 THEN b[1]
  ELSE IF need = 2 THEN (b[1] - 192) * 64 + (b[2] - 128)
  ELSE IF need = 3 THEN (b[1] - 224) * 4096 + (b[2] - 128) * 64 + (b[3] - 128)
  ELSE (b[1] - 240) * 262144 + (b[2] - 128) * 4096 + (b[3] - 128) * 64 + (b[4] - 128)

Decoded(text, pending) == [text |-> text, pending |-> pending]
After(c, r) == [r EXCEPT !.text = <<c>> \o @]

\* the continuation octets that follow the lead octet, need - 1 at most
RECURSIVE Continuations(_, _, _)
Continuations(b, k, need) ==
  IF k <= need /\ k <= Len(b) /\ IsContinuation(b[k])
  THEN 1 + Continuations(b, k + 1, need) ELSE 0

\* TextDecoder("utf-8", {fatal: false}).decode(octets, {stream: stream}):
\* a malformed sequence becomes U+FFFD, an unfinished one at the end is
\* kept for the next call when streaming
RECURSIVE Utf8Decode(_, _)
Utf8Decode(b, stream) ==
  IF b = <<>> THEN Decoded(<<>>, <<>>)
  ELSE IF Utf8Need(b[1]) = 0 THEN After(REPLACEMENT, Utf8Decode(Tail(b), stream))
  ELSE IF 1 + Continuations(b, 2, Utf8Need(b[1])) = Utf8Need(b[1])
  THEN After(CharOfCode(Utf8Value(b, Utf8Need(b[1]))),
             Utf8Decode(SubSeq(b, Utf8Need(b[1]) + 1, Len(b)), stream))
  ELSE IF 1 + Continuations(b, 2, Utf8Need(b[1])) = Len(b)
  THEN (IF stream THEN Decoded(<<>>, b) ELSE Decoded(<<REPLACEMENT>>, <<>>))
  ELSE After(REPLACEMENT,
             Utf8Decode(SubSeq(b, 2 + Continuations(b, 2, Utf8Need(b[1])), Len(b)),
                        stream))

\* currentDecoder: null, or a decoder and the octets it holds back
NoDecoder == [live |-> FALSE, pending |-> <<>>]
\* currentDecoder.decode()
FlushDecoder(dec) == IF dec.live THEN Utf8Decode(dec.pending, FALSE).text ELSE <<>>

\* the labels new TextDecoder(charset) accepts, among those of the model
KnownLabels == {<<"U", "T", "F", "-", "8">>, <<"u", "t", "f", "-", "8">>}

\* what decode2047Token returned, with lastCharset and currentDecoder
TokenResult(ok, text, last, dec) ==
  [ok |-> ok, text |-> text, last |-> last, dec |-> dec, err |-> "none"]

\* decode2047Token from "If we cannot reuse the last decoder" on; flushed is
\* what the decoder of another charset still held
DecodeStreamed(r, flushed, charset) ==
  TokenResult(TRUE, flushed \o r.text, charset, [live |-> TRUE, pending |-> r.pending])

DecodeBuffer(octets, charset, last, dec) ==
  IF charset # last /\ dec.live
  THEN (IF charset \in KnownLabels
        THEN DecodeStreamed(Utf8Decode(octets, TRUE), FlushDecoder(dec), charset)
        ELSE TokenResult(FALSE, <<>>, charset, NoDecoder))
  ELSE IF dec.live
  THEN DecodeStreamed(Utf8Decode(dec.pending \o octets, TRUE), <<>>, charset)
  ELSE IF charset \in KnownLabels
  THEN DecodeStreamed(Utf8Decode(octets, TRUE), <<>>, charset)
  ELSE TokenResult(FALSE, <<>>, charset, NoDecoder)

\* a B token with one '=' too many is repaired
DropExtraPadding(text) ==
  IF Len(text) % 4 = 1 /\ text[Len(text)] = EQ THEN SubSeq(text, 1, Len(text) - 1)
  ELSE text

\* decode2047Token on the parts of token.split("?")
DecodeParts(parts, last, dec) ==
  IF Len(parts) # 5 \/ parts[5] # <<EQ>> THEN TokenResult(FALSE, <<>>, last, dec)
  ELSE IF parts[3] \in {<<"B">>, <<"b">>}
  THEN (IF \E i \in DOMAIN parts[4] : ~IsBase64(parts[4][i]) /\ parts[4][i] # EQ
        THEN TokenResult(FALSE, <<>>, last, dec)
        ELSE IF ~Base64Decodes(DropExtraPadding(parts[4]))
        THEN [TokenResult(FALSE, <<>>, last, dec) EXCEPT !.err = "InvalidCharacterError"]
        ELSE DecodeBuffer(Base64Decoded(DropExtraPadding(parts[4])),
                          SplitOn(parts[2], "*", <<>>)[1], last, dec))
  ELSE IF parts[3] \in {<<"Q">>, <<"q">>}
  THEN DecodeBuffer(QpOctets(UnderscoresToSpaces(parts[4])),
                    SplitOn(parts[2], "*", <<>>)[1], last, dec)
  ELSE TokenResult(FALSE, <<>>, last, dec)

\* decode2047Token(token)
decode2047Token(token, last, dec) == DecodeParts(SplitOn(token, "?", <<>>), last, dec)

\* the position after position i of the next '?', or of the end
RECURSIVE NextQuestion(_, _)
NextQuestion(s, i) ==
  IF i >= Len(s) \/ s[i + 1] = "?" THEN i ELSE NextQuestion(s, i + 1)

\* the length of /=\?[^?]*\?[BQbq]\?[^?]*\?=/ at position i, 0 for no match
TokenLenAt(s, i) ==
  IF /\ HasAt(s, i, <<EQ, "?">>)
     /\ NextQuestion(s, i + 2) + 3 <= Len(s)
     /\ s[NextQuestion(s, i + 2) + 2] \in {"B", "Q", "b", "q"}
     /\ s[NextQuestion(s, i + 2) + 3] = "?"
     /\ HasAt(s, NextQuestion(s, NextQuestion(s, i + 2) + 3), <<"?", EQ>>)
  THEN NextQuestion(s, NextQuestion(s, i + 2) + 3) + 2 - i
  ELSE 0

\* the first position at or after i where the expression matches, or Len(s)
RECURSIVE TokenIndex(_, _)
TokenIndex(s, i) ==
  IF i >= Len(s) \/ TokenLenAt(s, i) > 0 THEN i ELSE TokenIndex(s, i + 1)

\* the loop body for a component that is no encoded-word
PlainComponent(c, last, dec) ==
  IF \A i \in DOMAIN c : IsWsp(c[i]) THEN TokenResult(TRUE, <<>>, last, dec)
  ELSE TokenResult(TRUE, FlushDecoder(dec) \o c, <<>>, NoDecoder)

\* the loop body for a component that is an encoded-word: r is what
\* decode2047Token returned
TokenComponent(r, token) ==
  IF r.ok \/ r.err # "none" THEN r
  ELSE TokenResult(TRUE, FlushDecoder(r.dec) \o token, <<>>, NoDecoder)

\* the components from position i on, joined; p is the state after the
\* component before, j the position of the next encoded-word and n its
\* length
RECURSIVE DecodeComponents(_, _, _, _)
RECURSIVE DecodePlain(_, _, _, _, _)
RECURSIVE DecodeToken(_, _, _, _, _)
DecodeComponents(s, i, text, p) ==
  IF p.err # "none" THEN [text |-> <<>>, err |-> p.err]
  ELSE DecodePlain(s, i, TokenIndex(s, i), text \o p.text, p)

DecodePlain(s, i, j, text, p) ==
  IF j >= Len(s)
  THEN [text |-> text \o PlainComponent(Substring(s, i, Len(s)), p.last, p.dec).text,
        err |-> "none"]
  ELSE DecodeToken(s, j, TokenLenAt(s, j), text,
                   PlainComponent(Substring(s, i, j), p.last, p.dec))

DecodeToken(s, j, n, text, p) ==
  DecodeComponents(s, j + n, text \o p.text,
                   TokenComponent(decode2047Token(Substring(s, j, j + n),
                                                  p.last, p.dec),
                                  Substring(s, j, j + n)))

\* decodeRFC2047Words(headerValue)
decodeRFC2047Words(headerValue) ==
  DecodeComponents(headerValue, 0, <<>>, TokenResult(TRUE, <<>>, <<>>, NoDecoder))

-----------------------------------------------------------------------------
(* The emitter in use, under SpecEmitter *)

\* the number of calls made on one emitter
MaxCalls == 3

\* n times the character ch
Rep(ch, n) == [i \in 1..n |-> ch]

\* a soft margin equal to the hard one, one below it, and one above the
\* default hard margin
EmitterChoices ==
  {EmitterOptions(Given(30), Given(30), Undefined),
   EmitterOptions(Given(30), Given(36), Undefined),
   EmitterOptions(Given(400), Undefined, Undefined)}

\* tokens: short ones, one ending in a space, one longer than the small
\* margins, one half as long as the large margin, one holding a line break
Texts ==
  {Rep("a", 1), Rep("a", 4) \o <<SP>>, Rep("a", 13), Rep("a", 33),
   Rep("a", 170), <<"a", CR, LF, "b">>}

\* texts with characters that call for quoting
Quotables == {<<"a", ",", "b">>, <<DQUOTE, "a", ",", DQUOTE>>, <<"a", DQUOTE>>, <<>>}

\* unstructured values: with a run of spaces, with a line break, longer
\* than the small soft margin, and outside ASCII, short and long
Phrases ==
  {<<"a", SP, SP, "b">>, <<"a", CR, LF, "b">>,
   Rep("a", 12) \o <<SP>> \o Rep("a", 12) \o <<SP>> \o Rep("a", 12),
   <<"U+00E9">>, Rep("U+20AC", 6)}

InitEmitter ==
  /\ ParserAside
  /\ registry = Unused
  /\ headers = Unused
  /\ \E opts \in EmitterChoices : emitter = HeaderEmitter(opts)

\* a call begins: the error of the call before it is forgotten
Called(e) == [e EXCEPT !.err = "none", !.calls = @ + 1]

MayCall == emitter.calls < MaxCalls /\ ~emitter.eof

AddText ==
  /\ MayCall
  /\ \E text \in Texts, mayBreakAfter \in BOOLEAN :
       emitter' = addText(Called(emitter), text, mayBreakAfter)
  /\ UNCHANGED <<parserVars, registry, headers>>

AddQuotable ==
  /\ MayCall
  /\ \E text \in Quotables, mayBreakAfter \in BOOLEAN :
       emitter' = addQuotable(Called(emitter), text, {",", DQUOTE}, mayBreakAfter)
  /\ UNCHANGED <<parserVars, registry, headers>>

AddUnstructured ==
  /\ MayCall
  /\ \E text \in Phrases : emitter' = addUnstructured(Called(emitter), text)
  /\ UNCHANGED <<parserVars, registry, headers>>

\* a new header begins once the line of the previous one has been sent
AddHeaderName ==
  /\ MayCall
  /\ emitter' = [addHeaderName(Called(emitter), <<"X">>)
                   EXCEPT !.headerFrom = Len(HeaderBreak(emitter).sink)]
  /\ UNCHANGED <<parserVars, registry, headers>>

\* the header is complete: what follows belongs to the next one
Finish ==
  /\ MayCall
  /\ \E sendEOF \in BOOLEAN :
       emitter' = [finish(Called(emitter), sendEOF)
                     EXCEPT !.headerFrom = Len(emitter.sink) + 1]
  /\ UNCHANGED <<parserVars, registry, headers>>

NextEmitter ==
  AddText \/ AddQuotable \/ AddUnstructured \/ AddHeaderName \/ Finish

SpecEmitter == InitEmitter /\ [][NextEmitter]_vars

\* is the delivered string one line ending in CRLF ?
OneLine(s) ==
  /\ Len(s) >= 2
  /\ s[Len(s) - 1] = CR /\ s[Len(s)] = LF
  /\ \A i \in 1..(Len(s) - 2) : ~IsNL(s[i])

\* C11: every string delivered to the sink is one line ending in CRLF, at
\* most hardMargin long without the CRLF
C11_LinesWithinHardMargin ==
  \A i \in DOMAIN emitter.sink :
    /\ OneLine(emitter.sink[i])
    /\ Len(emitter.sink[i]) - 2 <= emitter.hardMargin

\* C11, the part that holds: every delivered string ends in CRLF, and is
\* at most hardMargin long when the soft margin is not above the hard one
C11_LinesWithinOrderedMargins ==
  \A i \in DOMAIN emitter.sink :
    /\ Len(emitter.sink[i]) >= 2
    /\ SubSeq(emitter.sink[i], Len(emitter.sink[i]) - 1, Len(emitter.sink[i]))
         = <<CR, LF>>
    /\ emitter.softMargin <= emitter.hardMargin =>
         Len(emitter.sink[i]) - 2 <= emitter.hardMargin

\* a line longer than the hard margin was delivered by calls none of which
\* threw
C11_Witness ==
  /\ emitter.err = "none"
  /\ \E i \in DOMAIN emitter.sink :
       /\ OneLine(emitter.sink[i])
       /\ Len(emitter.sink[i]) - 2 > emitter.hardMargin

\* C12: when a call fails for lack of room, nothing of the header being
\* written has been delivered
C12_NothingDelivered ==
  emitter.err # "none" => Len(emitter.sink) = emitter.headerFrom

\* C12, the part that holds: the token that did not fit is in no line and
\* not in the current line, which is empty or the continuation space
C12_TokenLeftOut ==
  emitter.err # "none" =>
    /\ emitter.currentLine \in {<<>>, <<SP>>}
    /\ emitter.preferredBreakpoint = 0

\* a call failed after a line of the same header had been folded and sent
C12_Witness ==
  /\ emitter.err # "none"
  /\ Len(emitter.sink) > emitter.headerFrom
  /\ emitter.sink[emitter.headerFrom + 1] = <<"X", COLON, CR, LF>>

-----------------------------------------------------------------------------
(* encodeRFC2047Phrase on its own, under SpecEncode *)

\* the lengths of the texts over the whole alphabet, and of the texts made
\* of characters outside ASCII only
MaxShort == 3
MaxLong == 5

Alphabet == {"a", SP, EQ, "_"} \cup WideChars

EncodeTexts ==
  UNION {[1..n -> Alphabet] : n \in 0..MaxShort}
    \cup UNION {[1..n -> WideChars] : n \in (MaxLong - 1)..MaxLong}

\* what the line holds when the phrase arrives: nothing, a header name, or
\* text without a breakpoint
Prefills ==
  {[kind |-> "none", text |-> <<>>],
   [kind |-> "name", text |-> Rep("X", 1)],
   [kind |-> "name", text |-> Rep("X", 14)],
   [kind |-> "text", text |-> Rep("a", 17)],
   [kind |-> "text", text |-> Rep("a", 20)]}

\* the soft margin equal to the hard margin, and below it
EncodeChoices ==
  {EmitterOptions(Given(30), Given(30), Undefined),
   EmitterOptions(Given(30), Given(40), Undefined)}

InitEncode ==
  /\ ParserAside
  /\ registry = Unused
  /\ \E opts \in EncodeChoices : emitter = HeaderEmitter(opts)
  /\ \E text \in EncodeTexts :
       headers = [on |-> TRUE, stage |-> "new", text |-> text, prefill |-> "none",
                  decoded |-> <<>>]

Prefill ==
  /\ headers.stage = "new"
  /\ \E p \in Prefills :
       /\ emitter' = (IF p.kind = "name" THEN addHeaderName(emitter, p.text)
                      ELSE IF p.kind = "text" THEN addText(emitter, p.text, FALSE)
                      ELSE emitter)
       /\ headers' = [headers EXCEPT !.stage = "filled", !.prefill = p.kind]
  /\ UNCHANGED <<parserVars, registry>>

EncodePhrase ==
  /\ headers.stage = "filled"
  /\ \E mayBreakAfter \in BOOLEAN :
       emitter' = encodeRFC2047Phrase(emitter, headers.text, mayBreakAfter)
  /\ headers' = [headers EXCEPT !.stage = "encoded"]
  /\ UNCHANGED <<parserVars, registry>>

FinishHeader ==
  /\ headers.stage = "encoded"
  /\ emitter.err = "none"
  /\ emitter' = finish(emitter, TRUE)
  /\ headers' = [headers EXCEPT !.stage = "finished"]
  /\ UNCHANGED <<parserVars, registry>>

\* the octets begin with a whole character, and so on to their end
RECURSIVE WholeCharacters(_)
WholeCharacters(b) ==
  \/ b = <<>>
  \/ /\ Utf8Need(b[1]) \in 1..Len(b)
     /\ \A k \in 2..Utf8Need(b[1]) : IsContinuation(b[k])
     /\ WholeCharacters(SubSeq(b, Utf8Need(b[1]) + 1, Len(b)))

\* lines.join('')
RECURSIVE Joined(_)
Joined(lines) == IF lines = <<>> THEN <<>> ELSE Head(lines) \o Joined(Tail(lines))

\* what follows the colon of the header name, the whole text when no name
\* was written
ValueOf(emittedText, prefill) ==
  IF prefill = "name"
  THEN SubSeq(emittedText, Len(SplitOn(emittedText, COLON, <<>>)[1]) + 2,
              Len(emittedText))
  ELSE emittedText

\* the emitted header is read back
DecodeHeader ==
  /\ headers.stage = "finished"
  /\ headers' = [headers EXCEPT
                   !.stage = "decoded",
                   !.decoded = decodeRFC2047Words(
                                 ValueOf(Joined(emitter.sink), headers.prefill))]
  /\ UNCHANGED <<parserVars, registry, emitter>>

\* two adjacent encoded-words that hold the octets up to k and from k on
SplitWords(octets, k, useQP) ==
  RFC2047Word(SubSeq(octets, 1, k), useQP[1]) \o <<CR, LF, SP>>
    \o RFC2047Word(SubSeq(octets, k + 1, Len(octets)), useQP[2])

ReadSplit(octets) ==
  \E k \in 0..Len(octets), useQP \in BOOLEAN \X BOOLEAN :
    headers' = [headers EXCEPT
                  !.stage = "decoded",
                  !.prefill = IF WholeCharacters(SubSeq(octets, 1, k)) THEN "split"
                              ELSE "split within a character",
                  !.decoded = decodeRFC2047Words(SplitWords(octets, k, useQP))]

\* two adjacent encoded-words made by another emitter, which splits the
\* octets of the text anywhere, are read
DecodeSplit ==
  /\ headers.stage = "new"
  /\ ReadSplit(TextEncode(headers.text))
  /\ UNCHANGED <<parserVars, registry, emitter>>

NextEncode ==
  Prefill \/ EncodePhrase \/ FinishHeader \/ DecodeHeader \/ DecodeSplit

SpecEncode == InitEncode /\ [][NextEncode]_vars

\* C14: every octet range handed to _addRFC2047Word is a whole number of
\* UTF-8 characters
C14_WholeCharacters ==
  \A i \in DOMAIN emitter.words : WholeCharacters(emitter.words[i])

\* a text was split where the count ran out in the middle of a character:
\* the count runs out at a multiple of three octets only, and a word that
\* is not the last one has another length
C14_Witness ==
  /\ headers.stage = "encoded"
  /\ emitter.err = "none"
  /\ \E i \in 1..(Len(emitter.words) - 1) :
       emitter.words[i] # <<>> /\ Len(emitter.words[i]) % 3 # 0

C15_SplitWitness ==
  /\ headers.stage = "decoded"
  /\ headers.prefill = "split within a character"
  /\ headers.decoded.text = headers.text

-----------------------------------------------------------------------------
(* The structured decoders of src/headerparser.js and the structured       *)
(* encoders of src/mimeutils.js.  The two modules share one map of         *)
(* preferred spellings.  A decoder or encoder is <<"builtin", name>> or    *)
(* <<"custom", n>>.                                                          *)

\* header.toLowerCase()
ToLowerCase(s) ==
  [i \in DOMAIN s |-> IF CodePoint(s[i]) \in 65..90
                      THEN CharOfCode(CodePoint(s[i]) + 32) ELSE s[i]]

\* map.set(key, value) and map.has(key) on a function
MapSet(map, key, value) ==
  [k \in DOMAIN map \cup {key} |-> IF k = key THEN value ELSE map[k]]
MapHas(map, key) == key \in DOMAIN map
EmptyMap == <<>>

\* header names with a decoder and an encoder in structuredHeaders
BuiltinHeaders ==
  {<<"S", "u", "b", "j", "e", "c", "t">>, <<"T", "o">>, <<"D", "a", "t", "e">>}

Builtin(header) == <<"builtin", ToLowerCase(header)>>

\* the registry before its module-level statements have run
EmptyRegistry ==
  [on |-> TRUE, structuredDecoders |-> EmptyMap, encoders |-> EmptyMap,
   preferredSpellings |-> EmptyMap, forbiddenHeaders |-> {},
   err |-> "none", result |-> <<>>,
   \* kept by the model: the last call, and the maps before it
   call |-> <<"load">>, calls |-> 0, before |-> <<>>]

\* an addStructuredDecoder that lets every name through
addStructuredDecoderUnchecked(r, header, decoder) ==
  [r EXCEPT
     !.structuredDecoders = MapSet(@, ToLowerCase(header), decoder),
     !.preferredSpellings =
        IF MapHas(@, ToLowerCase(header)) THEN @
        ELSE MapSet(@, ToLowerCase(header), header)]

\* addStructuredDecoder(header, decoder)
addStructuredDecoder(r, header, decoder) ==
  IF ToLowerCase(header) \in r.forbiddenHeaders THEN [r EXCEPT !.err = "Error"]
  ELSE [r EXCEPT
          !.structuredDecoders = MapSet(@, ToLowerCase(header), decoder),
          !.preferredSpellings =
             IF MapHas(@, ToLowerCase(header)) THEN @
             ELSE MapSet(@, ToLowerCase(header), header)]

\* addStructuredEncoder(header, encoder)
addStructuredEncoder(r, header, encoder) ==
  [r EXCEPT
     !.encoders = MapSet(@, ToLowerCase(header), encoder),
     !.preferredSpellings =
        IF MapHas(@, ToLowerCase(header)) THEN @
        ELSE MapSet(@, ToLowerCase(header), header)]

\* the loops that load the default decoders and encoders
RECURSIVE LoadDefaults(_, _)
LoadDefaults(r, names) ==
  IF names = {} THEN r
  ELSE LoadDefaults(
         [addStructuredEncoder(
            addStructuredDecoder(r, CHOOSE h \in names : TRUE,
                                 Builtin(CHOOSE h \in names : TRUE)),
            CHOOSE h \in names : TRUE, Builtin(CHOOSE h \in names : TRUE))
          EXCEPT !.forbiddenHeaders =
                    @ \cup {ToLowerCase(CHOOSE h \in names : TRUE)}],
         names \ {CHOOSE h \in names : TRUE})

\* parseStructuredHeader(header, value): the decoder that is called
parseStructuredHeader(r, header) ==
  IF MapHas(r.structuredDecoders, ToLowerCase(header))
  THEN [r EXCEPT !.result = r.structuredDecoders[ToLowerCase(header)]]
  ELSE [r EXCEPT !.err = "Error"]

\* addStructuredHeader(name, value) with a value that is not a string: the
\* name that is written and the encoder that is called
addStructuredHeader(r, name) ==
  IF MapHas(r.encoders, ToLowerCase(name))
  THEN [r EXCEPT !.result = <<r.preferredSpellings[ToLowerCase(name)],
                              r.encoders[ToLowerCase(name)]>>]
  ELSE [r EXCEPT !.err = "Error"]

-----------------------------------------------------------------------------
(* The registries in use, under SpecRegistry *)

\* the number of calls made on the registries
MaxRegistryCalls == 3

\* built-in names in several spellings, and names that are not built in
HeaderNames ==
  {<<"S", "u", "b", "j", "e", "c", "t">>, <<"S", "U", "B", "J", "E", "C", "T">>,
   <<"t", "o">>, <<"X", "-", "A">>, <<"x", "-", "a">>}

Customs == {<<"custom", 1>>, <<"custom", 2>>}

IsBuiltinName(header) == ToLowerCase(header) \in {ToLowerCase(h) : h \in BuiltinHeaders}

InitRegistry ==
  /\ ParserAside
  /\ emitter = Unused
  /\ headers = Unused
  /\ registry = LoadDefaults(EmptyRegistry, BuiltinHeaders)

\* a call begins
RegistryCall(r, name, header) ==
  [r EXCEPT !.err = "none", !.result = <<>>, !.call = <<name, header>>,
            !.calls = @ + 1,
            !.before = <<r.structuredDecoders, r.encoders, r.preferredSpellings>>]

MayRegister == registry.calls < MaxRegistryCalls

AddStructuredDecoder ==
  /\ MayRegister
  /\ \E header \in HeaderNames, decoder \in Customs :
       registry' = addStructuredDecoder(
                     RegistryCall(registry, "addStructuredDecoder", header),
                     header, decoder)
  /\ UNCHANGED <<parserVars, emitter, headers>>

ParseStructuredHeader ==
  /\ MayRegister
  /\ \E header \in HeaderNames :
       registry' = parseStructuredHeader(
                     RegistryCall(registry, "parseStructuredHeader", header), header)
  /\ UNCHANGED <<parserVars, emitter, headers>>

AddStructuredEncoder ==
  /\ MayRegister
  /\ \E header \in HeaderNames, encoder \in Customs :
       registry' = addStructuredEncoder(
                     RegistryCall(registry, "addStructuredEncoder", header),
                     header, encoder)
  /\ UNCHANGED <<parserVars, emitter, headers>>

AddStructuredHeader ==
  /\ MayRegister
  /\ \E header \in HeaderNames :
       registry' = addStructuredHeader(
                     RegistryCall(registry, "addStructuredHeader", header), header)
  /\ UNCHANGED <<parserVars, emitter, headers>>

NextRegistry ==
  AddStructuredDecoder \/ ParseStructuredHeader \/ AddStructuredEncoder
    \/ AddStructuredHeader

SpecRegistry == InitRegistry /\ [][NextRegistry]_vars

\* C16: whatever was registered, the decoder of a built-in header name in
\* any spelling is the built-in one; addStructuredDecoder throws for such a
\* name and leaves the decoders and the spellings as they were, and it
\* succeeds for every other name
C16_BuiltinDecodersKept ==
  /\ \A header \in HeaderNames :
       IsBuiltinName(header) =>
         /\ MapHas(registry.structuredDecoders, ToLowerCase(header))
         /\ registry.structuredDecoders[ToLowerCase(header)] = Builtin(header)
  /\ registry.call[1] = "parseStructuredHeader" /\ IsBuiltinName(registry.call[2]) =>
       registry.result = Builtin(registry.call[2])
  /\ registry.call[1] = "addStructuredDecoder" =>
       /\ (registry.err # "none") = IsBuiltinName(registry.call[2])
       /\ registry.err # "none" =>
            /\ registry.structuredDecoders = registry.before[1]
            /\ registry.preferredSpellings = registry.before[3]
       /\ registry.err = "none" =>
            registry.structuredDecoders[ToLowerCase(registry.call[2])] \in Customs

\* a decoder for the built-in name in another spelling was refused after a
\* custom decoder had been registered
C16_Witness ==
  /\ registry.call = <<"addStructuredDecoder", <<"S", "U", "B", "J", "E", "C", "T">> >>
  /\ registry.err = "Error"
  /\ MapHas(registry.structuredDecoders, <<"x", "-", "a">>)

\* C17: addStructuredEncoder with a built-in header name is refused, and the
\* built-in encoder is the one addStructuredHeader calls afterwards
C17_BuiltinEncodersKept ==
  /\ registry.call[1] = "addStructuredEncoder" /\ IsBuiltinName(registry.call[2]) =>
       registry.err # "none"
  /\ \A header \in BuiltinHeaders :
       registry.encoders[ToLowerCase(header)] = Builtin(header)
  /\ registry.call[1] = "addStructuredHeader" /\ IsBuiltinName(registry.call[2])
       => registry.result[2] = Builtin(registry.call[2])

\* addStructuredHeader called a custom encoder for a built-in header
C17_Witness ==
  /\ registry.call = <<"addStructuredHeader", <<"S", "u", "b", "j", "e", "c", "t">> >>
  /\ registry.err = "none"
  /\ registry.result[2] \in Customs


-----------------------------------------------------------------------------
(* A boundary written with RFC 2231 parameters, under SpecContinued *)

\* the ways of writing the boundary parameter of a multipart/mixed header:
\* boundary=b, boundary*0=b;boundary*1=c and boundary*=utf-8''%62, each with
\* the boundary it spells
BoundaryForms ==
  { [form |-> "simple", params |-> <<BND, "b">>, boundary |-> <<"b">>],
    [form |-> "continued", params |-> <<BND0, "b", BND1, "c">>,
     boundary |-> <<"b", "c">>],
    [form |-> "extended", params |-> <<BNDX, UTF8, APOS, APOS, PERCENT, "6", "2">>,
     boundary |-> <<"b">>] }

\* a multipart/mixed message of count parts with the body "x", delimited by
\* the boundary the form spells
Continued(f, eol, count) ==
  LET open == <<DASH, DASH>> \o f.boundary \o eol
      close == <<DASH, DASH>> \o f.boundary \o <<DASH, DASH>> \o eol
      RECURSIVE Kids(_)
      Kids(n) == IF n = 0 THEN <<>> ELSE open \o eol \o <<"x">> \o eol \o Kids(n - 1)
      RECURSIVE Numbers(_)
      Numbers(n) == IF n = 0 THEN <<>> ELSE Append(Numbers(n - 1), NumToString(n))
  IN Message(<<CT, MPX>> \o f.params \o eol \o eol \o Kids(count) \o close,
             << <<>> >> \o Numbers(count))

InitContinued ==
  /\ \E f \in BoundaryForms, eol \in {<<LF>>, <<CR, LF>>}, count \in 1 .. MaxCount :
       /\ InitParser(DefaultOptions, Continued(f, eol, count))
       /\ headers = [on |-> TRUE, form |-> f.form, boundary |-> f.boundary,
                     value |-> <<MPX>> \o f.params]
  /\ consumer = Quiet
  /\ twin = NoTwin
  /\ emitter = Unused
  /\ registry = Unused

SpecContinued == InitContinued /\ [][Next]_vars

\* C18 as stated: the Content-Type decoder enables RFC 2231 decoding, so that
\* a boundary given as continuations or as an extended value appears under
\* its plain name in the decoded Content-Type, and when the whole message has
\* been parsed every part that the boundary delimits has been reported.
C18_ContinuedBoundarySplits ==
  /\ parseContentType(<<headers.value>>).boundary = <<headers.boundary>>
  /\ Finished => \A i \in DOMAIN expected : StartOf(expected[i]) # {}

\* What the code does: the decoder passes false for both switches, so only a
\* boundary written as boundary=... is decoded and splits the message; one
\* written in the other two ways is absent from the decoded Content-Type and
\* the message is reported as a single part.  The parameter decoder itself
\* yields the boundary in all three ways when RFC 2231 decoding is asked for.
C18_OnlySimpleBoundarySplits ==
  /\ parseParameterHeader(headers.value, FALSE, TRUE).boundary = <<headers.boundary>>
  /\ parseContentType(<<headers.value>>).boundary
       = (IF headers.form = "simple" THEN <<headers.boundary>> ELSE <<>>)
  /\ Finished =>
       IF headers.form = "simple"
       THEN Started = expected
       ELSE Started = << <<>> >>

\* a message whose boundary is written as continuations has been parsed to
\* its end and no child part was reported
C18_Witness ==
  /\ headers.form = "continued"
  /\ Finished
  /\ StartOf(<<"1">>) = {}

\* the same for a boundary written as an extended value
C18_ExtendedWitness ==
  /\ headers.form = "extended"
  /\ Finished
  /\ StartOf(<<"1">>) = {}


-----------------------------------------------------------------------------
(* StructuredHeaders objects of src/mimeparser.js: get and charset *)

\* the characters of a binary string whose octets are all below 0x80
AsciiText(octets) == [i \in DOMAIN octets |-> CharOfCode(octets[i])]

\* whether a fatal UTF-8 decoder accepts the octets
RECURSIVE Utf8WellFormed(_)
Utf8WellFormed(b) ==
  IF b = <<>> THEN TRUE
  ELSE /\ Utf8Need(b[1]) # 0
       /\ 1 + Continuations(b, 2, Utf8Need(b[1])) = Utf8Need(b[1])
       /\ Utf8WellFormed(SubSeq(b, Utf8Need(b[1]) + 1, Len(b)))

\* charset labels: a charset is <<>> for null or <<label>>
LATIN1 == <<"i", "s", "o", "-", "8", "8", "5", "9", "-", "1">>
UTF8LABEL == <<"U", "T", "F", "-", "8">>
BOGUSLABEL == <<"x", "-", "b", "o", "g", "u", "s">>

\* new TextDecoder(label, {fatal: false}).decode(octets) for the labels of
\* the model; an unknown label raises a RangeError
LegacyDecode(label, octets) ==
  IF ToLowerCase(label) = LATIN1
  THEN [err |-> "none", text |-> [i \in DOMAIN octets |-> CharOfCode(octets[i])]]
  ELSE IF ToLowerCase(label) = ToLowerCase(UTF8LABEL)
  THEN [err |-> "none", text |-> Utf8Decode(octets, FALSE).text]
  ELSE [err |-> "RangeError", text |-> <<>>]

\* fallbackCharset && !fallbackCharset.toLowerCase().startsWith("utf")
HasFallback(charset) ==
  /\ charset # <<>>
  /\ charset[1] # <<>>
  /\ ~(Len(charset[1]) >= 3 /\ SubSeq(ToLowerCase(charset[1]), 1, 3) = <<"u", "t", "f">>)

\* convert8BitHeader(headerValue, fallbackCharset)
convert8BitHeader(headerValue, fallbackCharset) ==
  IF \A i \in DOMAIN headerValue : headerValue[i] < 128
  THEN [err |-> "none", text |-> AsciiText(headerValue)]
  ELSE IF HasFallback(fallbackCharset) /\ ~Utf8WellFormed(headerValue)
  THEN LegacyDecode(fallbackCharset[1], headerValue)
  ELSE [err |-> "none", text |-> Utf8Decode(headerValue, FALSE).text]

\* the decoders of structuredHeaders for the headers of the model: Subject
\* decodes the encoded-words of the first value
parseUnstructured(values) == <<decodeRFC2047Words(values[1]).text>>

\* what get does once the values are converted: the structured decoder when
\* parseStructuredHeader finds one, decodeRFC2047Words for each value when it
\* throws
StructuredValue(headerName, values) ==
  IF headerName = <<"s", "u", "b", "j", "e", "c", "t">>
  THEN [err |-> "none", value |-> parseUnstructured(values)]
  ELSE [err |-> "none",
        value |-> [i \in DOMAIN values |-> decodeRFC2047Words(values[i]).text]]

\* the header values converted under a charset; the first error, if any
ConvertedValues(raw, charset) ==
  [i \in DOMAIN raw |-> convert8BitHeader(raw[i], charset)]

\* get from "Not cached?" on: the value that is computed from the raw values
DecodeHeaderValues(headerName, converted) ==
  IF \E i \in DOMAIN converted : converted[i].err # "none"
  THEN [err |-> "RangeError", value |-> <<>>]
  ELSE StructuredValue(headerName, [i \in DOMAIN converted |-> converted[i].text])

Undecoded == [err |-> "undefined", value |-> <<>>]

\* the charset setter that only assigns
setCharsetKeepingCache(h, value) == [h EXCEPT !.charset = value]

\* the setter of the charset property
setCharset(h, value) == [h EXCEPT !.charset = value, !.cachedHeaders = EmptyMap]

\* StructuredHeaders.prototype.get(headerName): the object afterwards and what
\* the call returned
get(h, headerName) ==
  IF MapHas(h.cachedHeaders, ToLowerCase(headerName))
  THEN [h EXCEPT !.result = h.cachedHeaders[ToLowerCase(headerName)]]
  ELSE IF ~MapHas(h.rawHeaders, ToLowerCase(headerName))
  THEN [h EXCEPT !.result = Undecoded]
  ELSE IF DecodeHeaderValues(ToLowerCase(headerName),
            ConvertedValues(h.rawHeaders[ToLowerCase(headerName)], h.charset)).err
          # "none"
  THEN [h EXCEPT !.result =
          DecodeHeaderValues(ToLowerCase(headerName),
            ConvertedValues(h.rawHeaders[ToLowerCase(headerName)], h.charset))]
  ELSE [h EXCEPT
          !.result =
             DecodeHeaderValues(ToLowerCase(headerName),
               ConvertedValues(h.rawHeaders[ToLowerCase(headerName)], h.charset)),
          !.cachedHeaders =
             MapSet(@, ToLowerCase(headerName),
               DecodeHeaderValues(ToLowerCase(headerName),
                 ConvertedValues(h.rawHeaders[ToLowerCase(headerName)], h.charset)))]

-----------------------------------------------------------------------------
(* A StructuredHeaders object in use, under SpecHeaders *)

\* the number of calls made on one object
MaxHeaderCalls == 4

\* header values as binary strings: "a", "=?UTF-8?Q?a_b?=", the octet E9
\* alone (e acute in ISO-8859-1, malformed as UTF-8) and the octets C3 A9 (e
\* acute in UTF-8)
ValueA == <<97>>
ValueWord == <<61, 63, 85, 84, 70, 45, 56, 63, 81, 63, 97, 95, 98, 63, 61>>
ValueLatin == <<97, 233>>
ValueUtf8 == <<195, 169>>

SUBJECT == <<"s", "u", "b", "j", "e", "c", "t">>
XA == <<"x", "-", "a">>

\* the raw headers of the header blocks of the model
RawHeaderChoices ==
  { (SUBJECT :> <<ValueLatin>>) @@ (XA :> <<ValueWord, ValueLatin>>),
    (SUBJECT :> <<ValueWord, ValueA>>) @@ (XA :> <<ValueUtf8>>),
    (XA :> <<ValueLatin, ValueUtf8>>) }

\* the names asked for: in both cases, and one that no block has
GetNames == {SUBJECT, <<"S", "u", "b", "j", "e", "c", "t">>, XA, <<"X", "-", "B">>}

\* the values written to charset
Charsets == {<<>>, <<LATIN1>>, <<UTF8LABEL>>, <<BOGUSLABEL>>}

\* the object after its constructor, with what the model keeps: the raw
\* headers it was built with, the last call, the names whose value a get has
\* computed since the last write to charset, whether the last get asked for
\* one of them, and every value a get has returned
NewStructuredHeaders(raw, charset) ==
  [on |-> TRUE, rawHeaders |-> raw, cachedHeaders |-> EmptyMap, charset |-> charset,
   result |-> Undecoded,
   original |-> raw, call |-> <<"new">>, calls |-> 0, computed |-> {},
   again |-> FALSE, returned |-> {}]

InitHeaders ==
  /\ \E raw \in RawHeaderChoices, charset \in {<<>>, <<LATIN1>>} :
       headers = NewStructuredHeaders(raw, charset)
  /\ ParserAside
  /\ emitter = Unused
  /\ registry = Unused

\* headers.get(name)
Get ==
  /\ headers.calls < MaxHeaderCalls
  /\ \E name \in GetNames :
       LET after == get(headers, name)
       IN headers' = [after EXCEPT
            !.call = <<"get", name>>,
            !.calls = @ + 1,
            !.again = ToLowerCase(name) \in headers.computed,
            !.computed = IF after.result.err = "none"
                         THEN @ \cup {ToLowerCase(name)} ELSE @,
            !.returned = @ \cup {<<ToLowerCase(name), after.result>>}]
  /\ UNCHANGED <<parserVars, emitter, registry>>

\* headers.charset = value
SetCharset ==
  /\ headers.calls < MaxHeaderCalls
  /\ \E value \in Charsets :
       headers' = [setCharset(headers, value) EXCEPT
                     !.call = <<"charset">>, !.calls = @ + 1,
                     !.computed = {}, !.again = FALSE]
  /\ UNCHANGED <<parserVars, emitter, registry>>

NextHeaders == Get \/ SetCharset

SpecHeaders == InitHeaders /\ [][NextHeaders]_vars

\* what get(name) computes from the raw values of the object under a charset
FreshValue(h, name, charset) ==
  IF MapHas(h.original, ToLowerCase(name))
  THEN DecodeHeaderValues(ToLowerCase(name),
                          ConvertedValues(h.original[ToLowerCase(name)], charset))
  ELSE Undecoded

\* C19: after any interleaving of get calls and writes to charset, a get
\* returns what decoding the raw values under the charset that is set now
\* gives; a name whose value was computed since the last write to charset is
\* still in the cache and the cached value is what get returns; the cache holds only
\* values decoded under the charset that is set now; the raw values are those
\* the object was built with.
C19_GetUnderCurrentCharset ==
  /\ headers.rawHeaders = headers.original
  /\ \A n \in DOMAIN headers.cachedHeaders :
       headers.cachedHeaders[n] = FreshValue(headers, n, headers.charset)
  /\ headers.computed \subseteq DOMAIN headers.cachedHeaders
  /\ headers.call[1] = "get" =>
       /\ headers.result = FreshValue(headers, headers.call[2], headers.charset)
       /\ headers.again =>
            headers.result = headers.cachedHeaders[ToLowerCase(headers.call[2])]

\* a get has returned a value for a name for which an earlier get, under
\* another charset, returned a different value
C19_Witness ==
  /\ headers.call[1] = "get"
  /\ headers.result.err = "none"
  /\ \E r \in headers.returned :
       /\ r[1] = ToLowerCase(headers.call[2])
       /\ r[2].err = "none"
       /\ r[2] # headers.result

\* a get has returned the value that an earlier get had put in the cache
C19_CachedWitness ==
  /\ headers.call[1] = "get"
  /\ headers.again
  /\ headers.result.value # <<>>


-----------------------------------------------------------------------------
(* The rawHeaderText of a header block, under SpecMbox *)

\* header blocks as the parser hands them over: an optional mbox delimiter
\* line, up to MaxHeaderLines header lines, the line break between them, and
\* a line break at the end when the message ended inside the header block
MaxHeaderLines == 2

Envelopes == {<<>>, <<FROM, "x">>, <<FROM, "b", SP, "c">>}
HeaderLines == {<<CT, TXT>>, <<CTE, B64>>, <<"x">>}

RECURSIVE LineLists(_)
LineLists(n) ==
  IF n = 0 THEN {<<>>}
  ELSE LineLists(n - 1)
       \cup {Append(l, h) : l \in {k \in LineLists(n - 1) : Len(k) = n - 1},
                            h \in HeaderLines}

RECURSIVE JoinLines(_, _)
JoinLines(lines, eol) ==
  IF lines = <<>> THEN <<>>
  ELSE IF Len(lines) = 1 THEN lines[1]
  ELSE lines[1] \o eol \o JoinLines(Tail(lines), eol)

HeaderTexts ==
  {JoinLines((IF envelope = <<>> THEN <<>> ELSE <<envelope>>) \o lines, eol)
     \o (IF cut THEN eol ELSE <<>>) :
     envelope \in Envelopes, lines \in LineLists(MaxHeaderLines),
     eol \in {<<LF>>, <<CR, LF>>, <<CR>>}, cut \in BOOLEAN}

InitMbox ==
  /\ \E text \in HeaderTexts :
       headers = [on |-> TRUE, stage |-> "text", text |-> text,
                  rawHeaderText |-> <<>>, recorded |-> {}]
  /\ ParserAside
  /\ emitter = Unused
  /\ registry = Unused

\* new StructuredHeaders(text, options)
NewHeaders ==
  /\ headers.stage = "text"
  /\ headers' = [headers EXCEPT
       !.stage = "parsed",
       !.rawHeaderText = StructuredHeaders(headers.text, DefaultOptions).rawHeaderText,
       !.recorded = StructuredHeaders(headers.text, DefaultOptions).recorded]
  /\ UNCHANGED <<parserVars, emitter, registry>>

SpecMbox == InitMbox /\ [][NewHeaders]_vars

\* the text that follows the first line and its line terminator, '' when the
\* text has one line only
AfterFirstLine(text) ==
  LET hits == {i \in 0 .. (Len(text) - 1) : SeparatorLenAt(text, i) > 0}
  IN IF hits = {} THEN <<>>
     ELSE Substring(text, Min(hits) + SeparatorLenAt(text, Min(hits)), Len(text))

FirstLineIsFrom(text) == text # <<>> /\ text[1] = FROM

\* C20 as stated: when the first line of the header block begins with
\* "From ", rawHeaderText is the text without that line and its terminator
\* and no header is recorded for the line; otherwise rawHeaderText is the
\* text.
C20_DelimiterLineRemoved ==
  headers.stage = "parsed" =>
    IF FirstLineIsFrom(headers.text)
    THEN /\ headers.rawHeaderText = AfterFirstLine(headers.text)
         /\ 1 \notin headers.recorded
    ELSE headers.rawHeaderText = headers.text

\* What the code does: no header is recorded for the delimiter line, and a
\* text without it is kept whole; with it, rawHeaderText is the text from
\* the first place where the text of the second line occurs, which is the
\* start of the second line only if that text is not empty and does not
\* occur in the delimiter line.
C20_RemovedUpToFirstOccurrence ==
  headers.stage = "parsed" =>
    IF FirstLineIsFrom(headers.text)
    THEN /\ 1 \notin headers.recorded
         /\ LET values == SplitHeaderLines(headers.text)
                own == Len(headers.text) - Len(AfterFirstLine(headers.text))
            IN IF Len(values) = 1 THEN headers.rawHeaderText = <<>>
               ELSE /\ IndexOf(headers.text, values[2]) <= own
                    /\ headers.rawHeaderText
                         = Substring(headers.text, IndexOf(headers.text, values[2]),
                                     Len(headers.text))
                    /\ IndexOf(headers.text, values[2]) = own
                         => headers.rawHeaderText = AfterFirstLine(headers.text)
    ELSE headers.rawHeaderText = headers.text

\* a header block that begins with a delimiter line has been parsed and its
\* rawHeaderText still begins with "From "
C20_Witness ==
  /\ headers.stage = "parsed"
  /\ FirstLineIsFrom(headers.text)
  /\ headers.rawHeaderText # <<>>
  /\ headers.rawHeaderText[1] = FROM

\* the same, and rawHeaderText holds the end of the delimiter line
C20_PartWitness ==
  /\ headers.stage = "parsed"
  /\ FirstLineIsFrom(headers.text)
  /\ headers.rawHeaderText # <<>>
  /\ headers.rawHeaderText[1] # FROM
  /\ headers.rawHeaderText # AfterFirstLine(headers.text)

\* the delimiter line was removed: the block had a line after it whose text
\* does not occur in it
C20_RemovedWitness ==
  /\ headers.stage = "parsed"
  /\ FirstLineIsFrom(headers.text)
  /\ headers.rawHeaderText # <<>>
  /\ headers.rawHeaderText = AfterFirstLine(headers.text)


-----------------------------------------------------------------------------
(* The raw headers of a header block, character by character *)

\* the characters of a header line before its first ':' (the whole line when
\* it has none) and the value after it, as the constructor's loop takes them
HeaderField(chars) ==
  IF IndexOf(chars, <<COLON>>) >= 0
  THEN Substring(chars, 0, IndexOf(chars, <<COLON>>)) ELSE chars

RawValueOf(chars, opts) ==
  IF IndexOf(chars, <<COLON>>) < 0 THEN <<>>
  ELSE IF opts.stripcontinuations
  THEN StripNewlines(Trim(Substring(chars, IndexOf(chars, <<COLON>>) + 1, Len(chars))))
  ELSE Trim(Substring(chars, IndexOf(chars, <<COLON>>) + 1, Len(chars)))

\* header.trim().toLowerCase()
CanonicalName(chars) == ToLowerCase(Trim(HeaderField(chars)))

\* a map that keeps the last value of a repeated header only
SetHeaderValue(map, header, val) == MapSet(map, header, <<val>>)

\* headers.get(header).push(val), or headers.set(header, [val])
PushHeaderValue(map, header, val) ==
  IF MapHas(map, header) THEN MapSet(map, header, Append(map[header], val))
  ELSE MapSet(map, header, <<val>>)

\* the loop over values that fills _rawHeaders
RECURSIVE RecordHeaders(_, _, _)
RecordHeaders(values, opts, map) ==
  IF values = <<>> THEN map
  ELSE IF CanonicalName(Flatten(Head(values))) = <<>>
  THEN RecordHeaders(Tail(values), opts, map)
  ELSE RecordHeaders(Tail(values), opts,
         PushHeaderValue(map, CanonicalName(Flatten(Head(values))),
                         RawValueOf(Flatten(Head(values)), opts)))

\* the values the loop runs over: the split lines, without the first when it
\* begins with "From "
KeptValues(values) == IF BeginsWithFrom(values) THEN Tail(values) ELSE values

\* this._rawHeaders of new StructuredHeaders(rawHeaderText, options)
RawHeadersOf(rawHeaderText, opts) ==
  RecordHeaders(KeptValues(SplitHeaderLines(rawHeaderText)), opts, EmptyMap)

\* getRawHeader(headerName): Undefined when no such header was recorded
getRawHeader(map, headerName) ==
  IF MapHas(map, ToLowerCase(headerName)) THEN Given(map[ToLowerCase(headerName)])
  ELSE Undefined

-----------------------------------------------------------------------------
(* The header splitter in use, under SpecSplitter *)

\* the number of lines of a header block
MaxBlockLines == 3

\* header lines of RFC 5322: "A:x", "a: y", "A :z" and "From :x" in the
\* obsolete syntax that allows white space before the colon, "B:x", "b:" and
\* the folded "A:x CRLF SP y"
BlockLines ==
  { <<"A", COLON, "x">>, <<"a", COLON, SP, "y">>, <<"A", SP, COLON, "z">>,
    <<FROM, COLON, "x">>, <<"B", COLON, "x">>, <<"b", COLON>>,
    <<"A", COLON, "x", CR, LF, SP, "y">> }

RECURSIVE Blocks(_)
Blocks(n) ==
  IF n = 0 THEN {<<>>}
  ELSE {line \o <<CR, LF>> \o rest : line \in BlockLines, rest \in Blocks(n - 1)}

HeaderBlocks == UNION {Blocks(n) : n \in 1 .. MaxBlockLines}

\* the names asked for
BlockNames == {<<"a">>, <<"A">>, <<"b">>, <<"f", "r", "o", "m">>, <<"c">>}

InitSplitter ==
  /\ \E text \in HeaderBlocks, strip \in BOOLEAN :
       headers = [on |-> TRUE, stage |-> "text", text |-> text,
                  options |-> [DefaultOptions EXCEPT !.stripcontinuations = strip],
                  rawHeaders |-> EmptyMap, name |-> <<>>, result |-> Undefined]
  /\ ParserAside
  /\ emitter = Unused
  /\ registry = Unused

\* new StructuredHeaders(text, options)
SplitBlock ==
  /\ headers.stage = "text"
  /\ headers' = [headers EXCEPT
       !.stage = "split",
       !.rawHeaders = RawHeadersOf(headers.text, headers.options)]
  /\ UNCHANGED <<parserVars, emitter, registry>>

\* headers.getRawHeader(name)
GetRawHeader ==
  /\ headers.stage = "split"
  /\ \E name \in BlockNames :
       headers' = [headers EXCEPT
         !.stage = "read", !.name = name,
         !.result = getRawHeader(headers.rawHeaders, name)]
  /\ UNCHANGED <<parserVars, emitter, registry>>

NextSplitter == SplitBlock \/ GetRawHeader

SpecSplitter == InitSplitter /\ [][NextSplitter]_vars

\* the unfolded lines of a header block of RFC 5322: a line ends at a CRLF
\* that no white space follows
RECURSIVE UnfoldedLines(_, _)
UnfoldedLines(text, cur) ==
  IF text = <<>> THEN (IF cur = <<>> THEN <<>> ELSE <<cur>>)
  ELSE IF HasAt(text, 0, <<CR, LF>>) /\ ~HasAt(text, 2, <<SP>>)
  THEN <<cur>> \o UnfoldedLines(SubSeq(text, 3, Len(text)), <<>>)
  ELSE UnfoldedLines(Tail(text), Append(cur, Head(text)))

\* the values of the lines whose text before the first ':' trims and
\* lower-cases to the name, in the order of the lines
RECURSIVE ValuesNamed(_, _, _)
ValuesNamed(lines, name, opts) ==
  IF lines = <<>> THEN <<>>
  ELSE (IF CanonicalName(Flatten(Head(lines))) = name
        THEN <<RawValueOf(Flatten(Head(lines)), opts)>> ELSE <<>>)
       \o ValuesNamed(Tail(lines), name, opts)

\* what getRawHeader returns for a list of values: undefined for none
Listed(values) == IF values = <<>> THEN Undefined ELSE Given(values)

\* C21 as stated: the raw values stored for a name are the values of the
\* unfolded lines of the block with that name, as many and in the same order.
C21_ValuePerLine ==
  headers.stage = "read" =>
    headers.result = Listed(ValuesNamed(UnfoldedLines(headers.text, <<>>),
                                        ToLowerCase(headers.name), headers.options))

\* C21 amended: the raw values stored for a name are the values of the
\* unfolded lines with that name, as many and in the same order, where a first
\* line that begins with "From " is taken for an mbox delimiter and not counted.
C21_ValuePerLineAfterDelimiter ==
  headers.stage = "read" =>
    headers.result = Listed(ValuesNamed(KeptValues(UnfoldedLines(headers.text, <<>>)),
                                        ToLowerCase(headers.name), headers.options))

\* a name was read that three lines of the block carry, in different
\* spellings and with different values
C21_Witness ==
  /\ headers.stage = "read"
  /\ headers.result # Undefined
  /\ Len(headers.result[1]) = 3
  /\ headers.result[1][1] # headers.result[1][2]
  /\ headers.result[1][2] # headers.result[1][3]

\* the header From was read from a block whose first line is "From :x" and
\* nothing was found
C21_DelimiterWitness ==
  /\ headers.stage = "read"
  /\ headers.name = <<"f", "r", "o", "m">>
  /\ headers.text[1] = FROM
  /\ headers.result = Undefined


-----------------------------------------------------------------------------
(* getHeaderTokens of src/headerparser.js, character by character.  A token *)
(* is a delimiter, [kind |-> "delimiter"], or an object with a toString,     *)
(* [kind |-> "token"]; text is its string form.                              *)

TAB == "\t"
\* wsp.contains(ch)
IsHeaderWsp(ch) == ch \in {SP, TAB, CR, LF}

\* token.replace(/\\(.?)/g, "$1"): a backslash goes, the character after it
\* stays and is not looked at again
RECURSIVE Unescape(_)
Unescape(s) ==
  IF s = <<>> THEN <<>>
  ELSE IF Head(s) # BACKSLASH THEN <<Head(s)>> \o Unescape(Tail(s))
  ELSE IF Len(s) = 1 THEN <<>>
  ELSE <<s[2]>> \o Unescape(SubSeq(s, 3, Len(s)))

\* new Token(token), a delimiter, and the object pushed for encoded-words
Token(text) == [kind |-> "token", text |-> Unescape(text)]
Delimiter(ch) == [kind |-> "delimiter", text |-> <<ch>>]
DecodedToken(text) == [kind |-> "token", text |-> text]

\* the options of the tokenizer; {} is NoTokenOptions
TokenOptions(qstring, dliteral, comments, rfc2047) ==
  [qstring |-> qstring, dliteral |-> dliteral, comments |-> comments,
   rfc2047 |-> rfc2047]
NoTokenOptions == TokenOptions(FALSE, FALSE, FALSE, FALSE)

\* the number of white space characters at position i
RECURSIVE WspRunAt(_, _)
WspRunAt(s, i) ==
  IF i < Len(s) /\ IsHeaderWsp(s[i + 1]) THEN 1 + WspRunAt(s, i + 1) ELSE 0

\* the length of /([ \t\r\n]*=\?[^?]*\?[BbQq]\?[^?]*\?=)+/ matched at
\* position i, 0 for no match there
RECURSIVE EncodedWordsAt(_, _)
EncodedWordsAt(s, i) ==
  IF TokenLenAt(s, i + WspRunAt(s, i)) = 0 THEN 0
  ELSE WspRunAt(s, i) + TokenLenAt(s, i + WspRunAt(s, i))
       + EncodedWordsAt(s, i + WspRunAt(s, i) + TokenLenAt(s, i + WspRunAt(s, i)))

\* encodedWordsRE.exec(s): the length of the leftmost match, 0 for null
RECURSIVE EncodedWordsExec(_, _)
EncodedWordsExec(s, i) ==
  IF i >= Len(s) THEN 0
  ELSE IF EncodedWordsAt(s, i) > 0 THEN EncodedWordsAt(s, i)
  ELSE EncodedWordsExec(s, i + 1)

\* what the loop concludes from a character outside quotes: whether it ends
\* the open token, may start one, is output as a delimiter, the endQuote it
\* sets ("" for none) and the comment depth after it
Analysis(ending, starting, special, endQuote, commentDepth) ==
  [ending |-> ending, starting |-> starting, special |-> special,
   endQuote |-> endQuote, commentDepth |-> commentDepth]

Analyse(ch, delimiters, opts, commentDepth) ==
  IF IsHeaderWsp(ch) THEN Analysis(TRUE, FALSE, FALSE, "", commentDepth)
  ELSE IF commentDepth = 0 /\ ch \in delimiters
  THEN Analysis(TRUE, FALSE, TRUE, "", commentDepth)
  ELSE IF opts.qstring /\ ch = DQUOTE
  THEN Analysis(TRUE, TRUE, FALSE, DQUOTE, commentDepth)
  ELSE IF opts.dliteral /\ ch = "["
  THEN Analysis(TRUE, TRUE, FALSE, "]", commentDepth)
  ELSE IF opts.comments /\ ch = "("
  THEN Analysis(TRUE, FALSE, TRUE, "", commentDepth + 1)
  ELSE IF opts.comments /\ ch = ")"
  THEN Analysis(TRUE, FALSE, TRUE, "",
                IF commentDepth > 0 THEN commentDepth - 1 ELSE commentDepth)
  ELSE Analysis(FALSE, TRUE, FALSE, "", commentDepth)

\* the token of an open token that ends before position i, if there is one
FlushToken(value, tokenStart, i) ==
  IF tokenStart >= 0 THEN <<Token(Substring(value, tokenStart, i))>> ELSE <<>>

\* the token of a quoted string that ends before position i
QuotedToken(value, tokenStart, i, opts) ==
  IF /\ opts.rfc2047
     /\ HasAt(value, tokenStart + 1, <<EQ, "?">>)
     /\ i - 2 >= tokenStart + 1
     /\ HasAt(value, i - 2, <<"?", EQ>>)
  THEN Token(decodeRFC2047Words(Substring(value, tokenStart + 1, i)).text)
  ELSE Token(Substring(value, tokenStart + 1, i))

\* tokenStart after a character that was analysed
StartAfter(a, tokenStart, i) ==
  IF a.starting /\ (a.ending \/ tokenStart < 0) THEN i
  ELSE IF a.ending THEN -1
  ELSE tokenStart

\* the loop of getHeaderTokens from position i on: tokenStart is -1 and
\* endQuote is "" while they are undefined
RECURSIVE TokenLoop(_, _, _, _, _, _, _)
AnalysedStep(value, delimiters, opts, i, tokenStart, a) ==
  (IF a.ending THEN FlushToken(value, tokenStart, i) ELSE <<>>)
  \o (IF a.special THEN <<Delimiter(value[i + 1])>> ELSE <<>>)
  \o TokenLoop(value, delimiters, opts, i + 1, StartAfter(a, tokenStart, i),
               a.endQuote, a.commentDepth)

EncodedStep(value, delimiters, opts, i, tokenStart, commentDepth, encWordsLen) ==
  FlushToken(value, tokenStart, i)
  \o <<DecodedToken(decodeRFC2047Words(Substring(value, i, i + encWordsLen)).text)>>
  \o TokenLoop(value, delimiters, opts, i + encWordsLen, -1, "", commentDepth)

TokenLoop(value, delimiters, opts, i, tokenStart, endQuote, commentDepth) ==
  IF i >= Len(value)
  THEN (IF tokenStart < 0 THEN <<>>
        ELSE IF endQuote = DQUOTE
        THEN <<Token(Substring(value, tokenStart + 1, Len(value)))>>
        ELSE <<Token(Substring(value, tokenStart, Len(value)))>>)
  ELSE IF value[i + 1] = BACKSLASH
  THEN TokenLoop(value, delimiters, opts, i + 2, tokenStart, endQuote, commentDepth)
  ELSE IF endQuote # ""
  THEN (IF value[i + 1] = endQuote /\ endQuote = DQUOTE
        THEN <<QuotedToken(value, tokenStart, i, opts)>>
             \o TokenLoop(value, delimiters, opts, i + 1, -1, "", commentDepth)
        ELSE IF value[i + 1] = endQuote
        THEN <<Token(Substring(value, tokenStart, i + 1))>>
             \o TokenLoop(value, delimiters, opts, i + 1, -1, "", commentDepth)
        ELSE TokenLoop(value, delimiters, opts, i + 1, tokenStart, endQuote,
                       commentDepth))
  ELSE IF /\ opts.rfc2047
          /\ HasAt(value, i, <<EQ, "?">>)
          /\ EncodedWordsExec(Substring(value, i, Len(value)), 0) > 0
  THEN EncodedStep(value, delimiters, opts, i, tokenStart, commentDepth,
                   EncodedWordsExec(Substring(value, i, Len(value)), 0))
  ELSE AnalysedStep(value, delimiters, opts, i, tokenStart,
                    Analyse(value[i + 1], delimiters, opts, commentDepth))

\* getHeaderTokens(value, delimiters, opts), one character per element
HeaderTokens(value, delimiters, opts) ==
  TokenLoop(value, delimiters, opts, 0, -1, "", 0)

\* the string forms of the tokens, one after the other
RECURSIVE TokenStrings(_)
TokenStrings(tokens) ==
  IF tokens = <<>> THEN <<>> ELSE Head(tokens).text \o TokenStrings(Tail(tokens))


-----------------------------------------------------------------------------
(* The tokenizer with opts = {}, under SpecTokens *)

\* the length of the values
MaxValueLen == 4

\* the characters of the values, and the delimiter sets
ValueChars == {"a", ",", SP, BACKSLASH, DQUOTE}
DelimiterSets == {{}, {","}, {",", DQUOTE}}

RECURSIVE ValuesOfLength(_)
ValuesOfLength(n) ==
  IF n = 0 THEN {<<>>}
  ELSE {Append(v, ch) : v \in ValuesOfLength(n - 1), ch \in ValueChars}

TokenValues == UNION {ValuesOfLength(n) : n \in 0 .. MaxValueLen}

InitTokens ==
  /\ \E value \in TokenValues, delimiters \in DelimiterSets :
       headers = [on |-> TRUE, stage |-> "value", value |-> value,
                  delimiters |-> delimiters, tokens |-> <<>>]
  /\ ParserAside
  /\ emitter = Unused
  /\ registry = Unused

\* getHeaderTokens(value, delimiters, {})
Tokenize ==
  /\ headers.stage = "value"
  /\ headers' = [headers EXCEPT
       !.stage = "tokens",
       !.tokens = HeaderTokens(headers.value, headers.delimiters, NoTokenOptions)]
  /\ UNCHANGED <<parserVars, emitter, registry>>

SpecTokens == InitTokens /\ [][Tokenize]_vars

\* the value without its white space
RECURSIVE WithoutWsp(_)
WithoutWsp(s) ==
  IF s = <<>> THEN <<>>
  ELSE (IF IsHeaderWsp(Head(s)) THEN <<>> ELSE <<Head(s)>>) \o WithoutWsp(Tail(s))

\* C23 as stated: the string forms of the tokens, one after the other, are
\* the value without its white space: no other character is lost or altered.
C23_TokensSpellValue ==
  headers.stage = "tokens" => TokenStrings(headers.tokens) = WithoutWsp(headers.value)

\* What the code does: the statement holds for values without a backslash;
\* every token that is a delimiter is one character of the delimiter set.
C23_TokensSpellValueWithoutBackslash ==
  headers.stage = "tokens" =>
    /\ \A i \in DOMAIN headers.tokens :
         headers.tokens[i].kind = "delimiter" =>
           /\ Len(headers.tokens[i].text) = 1
           /\ headers.tokens[i].text[1] \in headers.delimiters
    /\ (\A i \in DOMAIN headers.value : headers.value[i] # BACKSLASH)
         => TokenStrings(headers.tokens) = WithoutWsp(headers.value)

\* a value has been tokenized and a letter that follows a backslash is in
\* no token
C23_Witness ==
  /\ headers.stage = "tokens"
  /\ \E i \in DOMAIN headers.value : headers.value[i] = "a"
  /\ \A i \in DOMAIN headers.tokens :
       \A j \in DOMAIN headers.tokens[i].text : headers.tokens[i].text[j] # "a"

\* a delimiter that follows a backslash was not output as a delimiter
C23_DelimiterWitness ==
  /\ headers.stage = "tokens"
  /\ headers.delimiters = {","}
  /\ headers.value = <<"a", BACKSLASH, ",", "a">>
  /\ headers.tokens = <<Token(<<"a", ",", "a">>)>>


-----------------------------------------------------------------------------
(* parseAddressingHeader of src/headerparser.js *)

\* an address and a group of the result
Address(name, email) ==
  [kind |-> "address", name |-> name, email |-> email, group |-> <<>>]
Group(name, group) ==
  [kind |-> "group", name |-> name, email |-> <<>>, group |-> group]

\* /[ !()<>\[\]:;@\\,"]/.exec(address) !== null
LocalPartSpecials ==
  {SP, "!", "(", ")", "<", ">", "[", "]", ":", ";", "@", BACKSLASH, ",", DQUOTE}
NeedsQuoting(address) == \E i \in DOMAIN address : address[i] \in LocalPartSpecials

\* the local part, kept quoted if it needs to be
QuoteLocalPart(address) ==
  IF NeedsQuoting(address) THEN <<DQUOTE>> \o EscapeQuotes(address) \o <<DQUOTE>>
  ELSE address

\* the variables of the parsing loop
AddressLoop ==
  [results |-> <<>>, addrlist |-> <<>>, name |-> <<>>, groupName |-> <<>>,
   address |-> <<>>, inAngle |-> FALSE, needsSpace |-> FALSE]

\* a parser that keeps a pending address only when it has a display name
PushNamed(s) ==
  IF s.name # <<>>
  THEN [s EXCEPT !.addrlist = Append(@, Address(s.name, s.address))]
  ELSE s

\* a parser that keeps the pending address whatever it holds
PushAlways(s) == [s EXCEPT !.addrlist = Append(@, Address(s.name, s.address))]

\* addrlist.push({name: name, email: address}) when there is something
PushPending(s) ==
  IF s.name # <<>> \/ s.address # <<>>
  THEN [s EXCEPT !.addrlist = Append(@, Address(s.name, s.address))]
  ELSE s

IsDelimiter(token, ch) == token.kind = "delimiter" /\ token.text = <<ch>>

\* the token is not ')' and its string does not begin with '.'
TakesSpace(token) ==
  /\ ~IsDelimiter(token, ")")
  /\ ~(token.text # <<>> /\ token.text[1] = ".")

\* the last branch of the loop: a comment delimiter, a quoted string or a
\* span of dots and atoms; spaced is whether ' ' was put before the token
AddToAddress(s, token, spaced) ==
  [s EXCEPT
     !.address = IF s.inAngle \/ s.address # <<>>
                 THEN @ \o (IF spaced THEN <<SP>> ELSE <<>>) \o token.text ELSE @,
     !.name = IF s.inAngle \/ s.address # <<>> THEN @
              ELSE @ \o (IF spaced THEN <<SP>> ELSE <<>>) \o token.text,
     !.needsSpace =
        /\ ~(IsDelimiter(token, "(") /\ ~spaced)
        /\ ~(spaced /\ token.text = <<"(">>)
        /\ (spaced \/ ~(token.text # <<>> /\ token.text[1] = "."))]

\* the '@' branch
AtSign(s) ==
  [s EXCEPT
     !.address = QuoteLocalPart(IF s.inAngle THEN @ ELSE s.name) \o <<"@">>,
     !.name = IF s.inAngle THEN @ ELSE <<>>,
     !.needsSpace = FALSE]

\* the ';' branch, after the pending name was added
EndGroup(s) ==
  [s EXCEPT
     !.results = IF s.groupName = <<>> THEN @ \o s.addrlist
                 ELSE Append(@, Group(s.groupName, s.addrlist)),
     !.addrlist = <<>>, !.groupName = <<>>, !.name = <<>>, !.address = <<>>,
     !.needsSpace = FALSE]

\* one turn of the loop
AddressStep(s, token) ==
  IF IsDelimiter(token, ":")
  THEN [s EXCEPT !.groupName = s.name, !.name = <<>>,
                 !.results = @ \o s.addrlist, !.addrlist = <<>>,
                 !.needsSpace = FALSE]
  ELSE IF IsDelimiter(token, "<") THEN [s EXCEPT !.inAngle = TRUE, !.needsSpace = FALSE]
  ELSE IF IsDelimiter(token, ">") THEN [s EXCEPT !.inAngle = FALSE, !.needsSpace = FALSE]
  ELSE IF IsDelimiter(token, "@") THEN AtSign(s)
  ELSE IF IsDelimiter(token, ",")
  THEN [PushPending(s) EXCEPT !.name = <<>>, !.address = <<>>, !.needsSpace = FALSE]
  ELSE IF IsDelimiter(token, ";") THEN EndGroup(PushPending(s))
  ELSE AddToAddress(s, token, s.needsSpace /\ TakesSpace(token))

RECURSIVE AddressSteps(_, _)
AddressSteps(s, tokens) ==
  IF tokens = <<>> THEN s ELSE AddressSteps(AddressStep(s, Head(tokens)), Tail(tokens))

\* what follows the loop
AddressResults(s) ==
  IF s.groupName # <<>> THEN Append(s.results, Group(s.groupName, s.addrlist))
  ELSE s.results \o s.addrlist

\* parseAddressingHeader(header, doRFC2047)
parseAddressingHeader(header, doRFC2047) ==
  AddressResults(PushPending(
    AddressSteps(AddressLoop,
                 HeaderTokens(header, {":", ",", ";", "<", ">", "@"},
                              TokenOptions(TRUE, TRUE, TRUE, doRFC2047)))))


-----------------------------------------------------------------------------
(* Lists of addr-specs under SpecAddresses *)

MaxAddresses == 2

\* local parts: two atoms, a dot-atom, a quoted string that needs its quotes,
\* one with an escaped quote, and one that does not need its quotes
LocalParts ==
  { [text |-> <<"a">>, content |-> <<"a">>, quoted |-> FALSE],
    [text |-> <<"b">>, content |-> <<"b">>, quoted |-> FALSE],
    [text |-> <<"a", ".", "b">>, content |-> <<"a", ".", "b">>, quoted |-> FALSE],
    [text |-> <<DQUOTE, "a", SP, "b", DQUOTE>>, content |-> <<"a", SP, "b">>,
     quoted |-> TRUE],
    [text |-> <<DQUOTE, "a", BACKSLASH, DQUOTE, "b", DQUOTE>>,
     content |-> <<"a", DQUOTE, "b">>, quoted |-> TRUE],
    [text |-> <<DQUOTE, "a", DQUOTE>>, content |-> <<"a">>, quoted |-> TRUE] }

\* domains: two atoms, a dot-atom and a domain literal
Domains == { <<"x">>, <<"y">>, <<"x", ".", "y">>, <<"[", "x", "]">> }

AddrSpecs == { [local |-> l, domain |-> d] : l \in LocalParts, d \in Domains }

AddrSpecText(a) == a.local.text \o <<"@">> \o a.domain

\* the separators between two addr-specs
Commas == { <<",">>, <<",", SP>> }

AddrSpecLists ==
  UNION { [1..n -> AddrSpecs] : n \in 1..MaxAddresses }

RECURSIVE AddressList(_, _, _)
AddressList(specs, comma, k) ==
  IF k > Len(specs) THEN <<>>
  ELSE (IF k = 1 THEN <<>> ELSE comma) \o AddrSpecText(specs[k])
       \o AddressList(specs, comma, k + 1)

InitAddresses ==
  /\ ParserAside
  /\ emitter = Unused
  /\ registry = Unused
  /\ \E specs \in AddrSpecLists, comma \in Commas :
       headers = [on |-> TRUE, specs |-> specs,
                  header |-> AddressList(specs, comma, 1),
                  addresses |-> Undefined]

\* parseAddressingHeader(header)
ParseAddresses ==
  /\ headers.addresses = Undefined
  /\ headers' = [headers EXCEPT
                   !.addresses = Given(parseAddressingHeader(headers.header, TRUE))]
  /\ UNCHANGED <<parserVars, emitter, registry>>

SpecAddresses == InitAddresses /\ [][ParseAddresses]_vars

Parsed == headers.addresses # Undefined

\* a local part made of letters and dots only
PlainContent(content) == \A i \in DOMAIN content : content[i] \in {"a", "b", "."}

\* the addr-spec with the quotes of a local part that needs none taken off
Unquoted(a) ==
  (IF a.local.quoted /\ PlainContent(a.local.content) THEN a.local.content
   ELSE a.local.text) \o <<"@">> \o a.domain

C22_QuotedWitness ==
  /\ Parsed
  /\ Len(headers.specs) = 1
  /\ headers.specs[1].local.content = <<"a", SP, "b">>
  /\ headers.addresses[1][1].email = AddrSpecText(headers.specs[1])


-----------------------------------------------------------------------------
(* Packets, under SpecPackets: the caller cuts the text where it likes, and *)
(* the callbacks are kept with their data, the data of consecutive          *)
(* deliverPartData calls for one part joined.                               *)

\* a multipart whose only child has the body "x" and a line break, so that an
\* empty line stands before the closing delimiter
TrailingBlank(eol) ==
  <<CT, MPX, BND, "b">> \o eol \o eol \o <<DASH, DASH, "b">> \o eol
    \o eol \o <<"x">> \o eol \o eol \o <<DASH, DASH, "b", DASH, DASH>> \o eol

\* a multipart that ends without its closing delimiter, the last line of the
\* open child with and without a line break
Unclosed(eol, last) ==
  <<CT, MPX, BND, "b">> \o eol \o eol \o <<DASH, DASH, "b">> \o eol
    \o eol \o <<"x">> \o eol \o <<"y">> \o last

LineBreaks == {<<LF>>, <<CR, LF>>, <<CR>>}

PacketMessages ==
  Rendered(Grow(Simple), Styles \cup {OldMac})
    \cup {Message(TrailingBlank(eol), Unknown) : eol \in LineBreaks}
    \cup {Message(Unclosed(eol, <<>>), Unknown) : eol \in LineBreaks}
    \cup {Message(Unclosed(eol, eol), Unknown) : eol \in LineBreaks}

\* the callbacks so far and one more
JoinData(log, e) ==
  IF /\ log # <<>>
     /\ e.name = "deliverPartData"
     /\ log[Len(log)].name = "deliverPartData"
     /\ log[Len(log)].part = e.part
  THEN [log EXCEPT ![Len(log)].data = @ \o e.data]
  ELSE Append(log, e)

RECURSIVE JoinAll(_, _)
JoinAll(log, out) ==
  IF out = <<>> THEN log ELSE JoinAll(JoinData(log, Head(out)), Tail(out))

\* the callbacks of deliverData(text) followed by deliverEOF() on a new parser
WholeText(opts, text) ==
  [ps |-> deliverData(Start(<<NewParser>>), [options |-> opts, throwAt |-> {}], text).ps]

OneDelivery(opts, text) ==
  JoinAll(JoinAll(<<>>, deliverData(Start(<<NewParser>>),
                                    [options |-> opts, throwAt |-> {}], text).out),
          deliverEOF(Start(WholeText(opts, text).ps),
                     [options |-> opts, throwAt |-> {}]).out)

InitPackets ==
  /\ \E message \in PacketMessages :
       /\ InitParser(DefaultOptions, message)
       /\ headers = [on |-> TRUE, text |-> message.text, log |-> <<>>]
  /\ consumer = Quiet
  /\ twin = NoTwin
  /\ emitter = Unused
  /\ registry = Unused

\* the caller delivers a packet; the callbacks are logged
DeliverPacket ==
  /\ phase = "open"
  /\ \E n \in ChunkSizes :
       LET w == deliverData(Start(parser), [options |-> options, throwAt |-> {}],
                            SubSeq(script, 1, n))
       IN /\ Step(w)
          /\ headers' = [headers EXCEPT !.log = JoinAll(@, w.out)]
          /\ script' = SubSeq(script, n + 1, Len(script))
  /\ UNCHANGED <<options, phase, expected, consumer, twin, emitter, registry>>

\* the caller signals the end of the message; the callbacks are logged
DeliverEnd ==
  /\ phase = "open"
  /\ LET w == deliverEOF(Start(parser), [options |-> options, throwAt |-> {}])
     IN /\ Step(w)
        /\ headers' = [headers EXCEPT !.log = JoinAll(@, w.out)]
  /\ phase' = "closed"
  /\ UNCHANGED <<options, script, expected, consumer, twin, emitter, registry>>

NextPackets == DeliverPacket \/ DeliverEnd

SpecPackets == InitPackets /\ [][NextPackets]_vars

\* the startPart and endPart callbacks of a log: part number and content type
PartEvents(log) ==
  BareAll(SelectSeq(log, LAMBDA e : e.name \in {"startPart", "endPart"}))

\* the data a log holds for part P, concatenated
RECURSIVE PartData(_, _)
PartData(log, P) ==
  IF log = <<>> THEN <<>>
  ELSE (IF Head(log).name = "deliverPartData" /\ Head(log).part = P
        THEN Head(log).data ELSE <<>>) \o PartData(Tail(log), P)

PartsOf(log) == {log[i].part : i \in DOMAIN log}

\* the log agrees with that of the delivery of the text in one packet
SameAsOneDelivery(log, whole) ==
  /\ PartEvents(log) = PartEvents(whole)
  /\ \A P \in PartsOf(log) \cup PartsOf(whole) : PartData(log, P) = PartData(whole, P)

\* C24: any way of cutting the text into packets, followed by deliverEOF,
\* yields the startPart and endPart callbacks and, for every part, the
\* concatenated data that the delivery of the text in one packet yields.
C24_PacketsDoNotMatter ==
  (Finished /\ headers.on) =>
    SameAsOneDelivery(headers.log, OneDelivery(options, headers.text))


\* the text "\r\nx" was delivered as "\r" and "\nx": the body came out as "\nx",
\* where the delivery in one packet gives "x"
C24_Witness ==
  /\ Finished /\ headers.on
  /\ headers.text = <<CR, LF, "x">>
  /\ PartData(headers.log, <<>>) = <<LF, "x">>
  /\ PartData(OneDelivery(options, headers.text), <<>>) = <<"x">>


-----------------------------------------------------------------------------
(* The buffers passed to _dispatchData, under SpecLines *)

MaxLevels == 4      \* parsers in a chain

\* a message/rfc822 part in quoted-printable with a soft line break, and one
\* in base64
EncodedEmbedded ==
  { <<CT, MSG, LF, CTE, QP, LF, LF, LF, "x", EQ, LF, "x", LF>>,
    <<CT, MSG, LF, CTE, B64, LF, LF, "x", "x", "x", "x", LF, "x", "x", "x", "x", LF>> }

LineMessages ==
  Rendered(Grow(Simple), Styles \cup {OldMac})
    \cup {Message(text, Unknown) : text \in EncodedEmbedded}

\* the last character each parser of the chain was passed, "" for none
NoTails == [lvl \in 1..MaxLevels |-> ""]

\* the buffers of a call, each with the character it follows in the text of
\* its parser ("" at the start of that text)
RECURSIVE Follows(_, _)
Follows(tails, fed) ==
  IF fed = <<>> THEN [tails |-> tails, fed |-> <<>>]
  ELSE LET e == Head(fed)
           after == IF e.restart THEN [tails EXCEPT ![e.lvl] = ""]
                    ELSE IF e.buffer = <<>> THEN tails
                    ELSE [tails EXCEPT ![e.lvl] = e.buffer[Len(e.buffer)]]
           rest == Follows(after, Tail(fed))
       IN IF e.restart THEN rest
          ELSE [tails |-> rest.tails,
                fed |-> <<[e EXCEPT !.before = IF @ = "" THEN tails[e.lvl] ELSE @]>>
                        \o rest.fed]

InitLines ==
  /\ \E message \in LineMessages :
       /\ InitParser(DefaultOptions, message)
       /\ headers = [on |-> TRUE, tails |-> NoTails, fed |-> <<>>]
  /\ consumer = Quiet
  /\ twin = NoTwin
  /\ emitter = Unused
  /\ registry = Unused

Traced(w) ==
  headers' = [headers EXCEPT !.tails = Follows(headers.tails, w.fed).tails,
                             !.fed = Follows(headers.tails, w.fed).fed]

\* deliverData(packet), the buffers passed to _dispatchData traced
DeliverTraced ==
  /\ phase = "open"
  /\ \E n \in ChunkSizes :
       LET w == deliverData(Start(parser), [options |-> options, throwAt |-> {}],
                            SubSeq(script, 1, n))
       IN /\ Step(w)
          /\ Traced(w)
          /\ script' = SubSeq(script, n + 1, Len(script))
  /\ UNCHANGED <<options, phase, expected, consumer, twin, emitter, registry>>

\* deliverEOF(), the buffers passed to _dispatchData traced
EndTraced ==
  /\ phase = "open"
  /\ LET w == deliverEOF(Start(parser), [options |-> options, throwAt |-> {}])
     IN Step(w) /\ Traced(w)
  /\ phase' = "closed"
  /\ UNCHANGED <<options, script, expected, consumer, twin, emitter, registry>>

NextLines == DeliverTraced \/ EndTraced

SpecLines == InitLines /\ [][NextLines]_vars

\* the buffer begins a line: it is empty or the first of its parser's text,
\* or the character before it ends a line and the buffer is not the second
\* half of a "\r\n"
BeginsLine(e) ==
  \/ e.buffer = <<>>
  \/ e.before = ""
  \/ IsNL(e.before) /\ ~(e.before = CR /\ e.buffer[1] = LF)

\* C25: every buffer passed to _dispatchData of any parser of the chain begins
\* at the start of a line of the text that parser is parsing.
C25_BuffersBeginLines ==
  headers.on => \A i \in DOMAIN headers.fed : BeginsLine(headers.fed[i])


\* a subparser behind a transfer decoder was passed a buffer that follows a
\* character which ends no line
C25_Witness ==
  /\ headers.on
  /\ \E i \in DOMAIN headers.fed :
       /\ headers.fed[i].lvl = 2
       /\ headers.fed[i].buffer # <<>>
       /\ headers.fed[i].before \notin {"", CR, LF}


-----------------------------------------------------------------------------
(* The '\r' that ends a packet, under SpecPackets *)

\* the packet of a deliverData step: what left the script
PacketOfStep == SubSeq(script, 1, Len(script) - Len(script'))

EndsInCR(s) == s # <<>> /\ s[Len(s)] = CR

\* C26: after every deliverData call, if the held data followed by the new
\* data ends in '\r', that '\r' is the end of the held data.
C26_TrailingCRHeld ==
  [][(phase' = "open" /\ EndsInCR(parser[1].holdData \o PacketOfStep))
       => EndsInCR(parser'[1].holdData)]_vars

\* the packet "\r" came when nothing was held: it was dispatched and ended
\* the header block, and nothing is held
C26_Witness ==
  /\ headers.on
  /\ headers.text = <<CR, LF, "x">>
  /\ script = <<LF, "x">>
  /\ parser[1].holdData = <<>>
  /\ parser[1].state = SEND_TO_EMITTER


-----------------------------------------------------------------------------
(* The body of a multipart's child, under SpecChild *)

\* bodies of a leaf child: nothing, one line, two lines, a line and an empty
\* line, an empty line and a line, text that resembles the delimiter
ChildBodies(eol) ==
  { <<>>, <<"x">>, <<"x">> \o eol \o <<"y">>, <<"x">> \o eol, eol \o <<"x">>,
    <<"x", DASH, DASH, "b">>, <<DASH, DASH, "b", "x">> }

\* a multipart whose first child has an empty header block and the body given;
\* the child is followed by a second child or by the closing delimiter
WithChild(eol, body, closed) ==
  <<CT, MPX, BND, "b">> \o eol \o eol
    \o <<DASH, DASH, "b">> \o eol \o eol \o body \o eol
    \o (IF closed THEN <<>> ELSE <<DASH, DASH, "b">> \o eol \o eol \o <<"z">> \o eol)
    \o <<DASH, DASH, "b", DASH, DASH>> \o eol

InitChild ==
  /\ \E eol \in LineBreaks, closed \in BOOLEAN :
       \E body \in ChildBodies(eol) :
         /\ InitParser(DefaultOptions, Message(WithChild(eol, body, closed), Unknown))
         /\ headers = [on |-> TRUE, text |-> WithChild(eol, body, closed),
                       log |-> <<>>, body |-> body]
  /\ consumer = Quiet
  /\ twin = NoTwin
  /\ emitter = Unused
  /\ registry = Unused

SpecChild == InitChild /\ [][NextPackets]_vars

\* C27: the data delivered for the leaf child of a multipart is the text
\* between the empty line that ends the child's headers and the line break
\* before the next delimiter line, however the text is cut into packets.
C27_ChildBodyExact ==
  (headers.on /\ Finished) => PartData(headers.log, <<"1">>) = headers.body


\* the child's body is "x" and an empty line, with "\r\n" line breaks: a
\* packet "\r" that came when nothing was held left a '\r' at the end of the
\* child's data
C27_Witness ==
  /\ headers.on /\ Finished
  /\ headers.text = WithChild(<<CR, LF>>, <<"x", CR, LF>>, TRUE)
  /\ PartData(headers.log, <<"1">>) = <<"x", CR, LF, CR>>


-----------------------------------------------------------------------------
(* A multipart that ends without its closing delimiter, under SpecUnclosed *)

\* what the open child holds after its empty header block: one or two lines,
\* the last with or without its line break
OpenBodies(eol) ==
  { <<"x">>, <<"x">> \o eol, <<"x">> \o eol \o <<"y">>,
    <<"x">> \o eol \o <<"y">> \o eol }

\* the text ends inside the first child
EndsInChild(eol, body) ==
  <<CT, MPX, BND, "b">> \o eol \o eol \o <<DASH, DASH, "b">> \o eol \o eol \o body

InitUnclosed ==
  /\ \E eol \in LineBreaks :
       \E body \in OpenBodies(eol) :
         /\ InitParser(DefaultOptions, Message(EndsInChild(eol, body), Unknown))
         /\ headers = [on |-> TRUE, text |-> EndsInChild(eol, body),
                       log |-> <<>>, body |-> body]
  /\ consumer = Quiet
  /\ twin = NoTwin
  /\ emitter = Unused
  /\ registry = Unused

SpecUnclosed == InitUnclosed /\ [][NextPackets]_vars

\* the callbacks of the log before the first endPart of part P
RECURSIVE BeforeEnd(_, _)
BeforeEnd(log, P) ==
  IF log = <<>> \/ (Head(log).name = "endPart" /\ Head(log).part = P) THEN <<>>
  ELSE <<Head(log)>> \o BeforeEnd(Tail(log), P)

\* C28: when the text ends inside a child of a multipart, all the text
\* received for the child has been delivered to it before its endPart, a last
\* line without a line break included.
C28_NothingLostAtEOF ==
  (headers.on /\ Finished) =>
    PartData(BeforeEnd(headers.log, <<"1">>), <<"1">>) = headers.body

\* the text ended with the line "y" without a line break: the child was
\* given "x" and its line break only
C28_Witness ==
  /\ headers.on /\ Finished
  /\ headers.body = <<"x", LF, "y">>
  /\ PartData(headers.log, <<"1">>) = <<"x", LF>>


-----------------------------------------------------------------------------
(* After the closing delimiter, under SpecEpilogue *)

\* the multipart P with the boundary b and one child, up to the line break of
\* its closing delimiter
ClosedMultipart(eol, b) ==
  <<CT, MPX, BND, b>> \o eol \o eol \o <<DASH, DASH, b>> \o eol
    \o eol \o <<"x">> \o eol \o <<DASH, DASH, b, DASH, DASH>> \o eol

\* what follows: lines that equal the delimiter and the closing delimiter of
\* P, with text between them
AfterClosing(eol, b) ==
  <<DASH, DASH, b>> \o eol \o eol \o <<"z">> \o eol
    \o <<DASH, DASH, b, DASH, DASH>> \o eol \o <<DASH, DASH, b>> \o eol \o <<"z">> \o eol

\* P is the whole message, or the only child of a multipart
Epilogues(eol) ==
  { [text |-> ClosedMultipart(eol, "b") \o AfterClosing(eol, "b"),
     tail |-> AfterClosing(eol, "b"), P |-> <<>>, lvl |-> 1],
    [text |-> <<CT, MPX, BND, "b">> \o eol \o eol \o <<DASH, DASH, "b">> \o eol
                \o ClosedMultipart(eol, "c") \o AfterClosing(eol, "c")
                \o <<DASH, DASH, "b", DASH, DASH>> \o eol,
     tail |-> AfterClosing(eol, "c") \o <<DASH, DASH, "b", DASH, DASH>> \o eol,
     P |-> <<"1">>, lvl |-> 2] }

InitEpilogue ==
  /\ \E eol \in LineBreaks :
       \E m \in Epilogues(eol) :
         /\ InitParser(DefaultOptions, Message(m.text, Unknown))
         /\ headers = [on |-> TRUE, text |-> m.text, log |-> <<>>,
                       tail |-> m.tail, P |-> m.P, lvl |-> m.lvl]
  /\ consumer = Quiet
  /\ twin = NoTwin
  /\ emitter = Unused
  /\ registry = Unused

SpecEpilogue == InitEpilogue /\ [][NextPackets]_vars

\* the callbacks for the parts inside P
Inside(out, P) == SelectSeq(out, LAMBDA e : Extends(e.part, P))

\* the text a parser of the chain holds back from the parsers below it
RECURSIVE HeldAbove(_)
HeldAbove(lvl) ==
  IF lvl = 0 \/ lvl > Len(parser) THEN 0
  ELSE Len(parser[lvl].holdData) + Len(parser[lvl].savedBuffer) + HeldAbove(lvl - 1)

\* the parser of P has been passed the closing delimiter of P
SeenClosing ==
  /\ headers.on
  /\ Len(script) + HeldAbove(headers.lvl - 1)
       + (IF headers.lvl = 1 THEN Len(parser[1].holdData) ELSE 0) <= Len(headers.tail)

\* the callbacks for the one child of P
OneChild(P) ==
  <<Event("startPart", ChildPart(P, 1), <<>>, TXT),
    Event("deliverPartData", ChildPart(P, 1), <<"x">>, ""),
    Event("endPart", ChildPart(P, 1), <<>>, "")>>

\* C29: once the closing delimiter of the multipart P has been seen, no
\* callback is made for a part inside P, whatever lines follow, and at the
\* end P has the children it had then.
C29_NothingAfterClosing ==
  [][/\ SeenClosing => Inside(emitted', headers.P) = <<>>
     /\ (headers.on /\ phase' = "closed" /\ script = <<>>)
          => Inside(headers'.log, headers.P) = OneChild(headers.P)]_vars

\* the run is over, P is the only child of a multipart, and the lines after
\* its closing delimiter have been delivered
C29_Witness ==
  /\ headers.on /\ Finished /\ SeenClosing
  /\ headers.lvl = 2
  /\ Inside(headers.log, <<"1">>) = OneChild(<<"1">>)
  /\ EndOf(<<"1">>) # {}


-----------------------------------------------------------------------------
(* The children of one multipart, under SpecSiblings *)

\* an earlier sibling: plain text; base64 text in a charset; a multipart with
\* the boundary c, closed and left open; a message; quoted-printable text cut
\* after a soft line break; an unfinished header block that names a multipart
PlainSibling == <<LF, "x">>
EarlierSiblings ==
  { PlainSibling,
    <<CT, TXT, CHS, UTF8, LF, CTE, B64, LF, LF, "x", "x", "x", "x">>,
    <<CT, MPX, BND, "c", LF, LF, DASH, DASH, "c", LF, LF, "x", LF,
      DASH, DASH, "c", DASH, DASH>>,
    <<CT, MPX, BND, "c", LF, LF, DASH, DASH, "c", LF, LF, "x">>,
    <<CT, MSG, LF, CTE, QP, LF, LF, LF, "x", EQ>>,
    <<CTE, QP, LF, LF, "x", EQ>>,
    <<CT, MPX, BND, "c">> }

\* a later sibling: text with a line that equals the earlier boundary; no text
\* at all; a header line without its end; a multipart with the boundary c;
\* text that could be base64; a message
LaterSiblings ==
  { <<LF, DASH, DASH, "c", LF, "y">>,
    <<>>,
    <<"y">>,
    <<CT, MPX, BND, "c", LF, LF, DASH, DASH, "c", LF, LF, "y", LF,
      DASH, DASH, "c", DASH, DASH>>,
    <<LF, "x", "x", "x", "x", EQ>>,
    <<CT, MSG, LF, LF, LF, "y">> }

\* a multipart of the type given with two children
WithSiblings(type, first, second) ==
  <<CT, type, BND, "b", LF, LF, DASH, DASH, "b", LF>> \o first
    \o <<LF, DASH, DASH, "b", LF>> \o second \o <<LF, DASH, DASH, "b", DASH, DASH, LF>>

SiblingOptions ==
  { DefaultOptions,
    [DefaultOptions EXCEPT !.bodyformat = "decode", !.strformat = "unicode"] }

InitSiblings ==
  /\ \E type \in {MPX, MPD}, first \in EarlierSiblings, second \in LaterSiblings,
        opts \in SiblingOptions :
       /\ InitParser(opts, Message(WithSiblings(type, first, second), Unknown))
       /\ headers = [on |-> TRUE, text |-> WithSiblings(type, first, second),
                     log |-> <<>>, type |-> type, first |-> first, second |-> second]
  /\ consumer = Quiet
  /\ twin = NoTwin
  /\ emitter = Unused
  /\ registry = Unused

SpecSiblings == InitSiblings /\ [][NextPackets]_vars

\* the callbacks, with their data, for part P and the parts inside it
Within(log, P) == SelectSeq(log, LAMBDA e : e.part = P \/ Extends(e.part, P))

\* C30: the callbacks for the second child of a multipart are those made for
\* it when the first child is plain text, whatever the first child was.
C30_SiblingsIndependent ==
  (headers.on /\ Finished) =>
    Within(headers.log, <<"2">>)
      = Within(OneDelivery(options,
                           WithSiblings(headers.type, PlainSibling, headers.second)),
               <<"2">>)

\* the first child was a multipart with the boundary c that was left open,
\* the second holds a line "--c", which was delivered as data
C30_Witness ==
  /\ headers.on /\ Finished
  /\ headers.first = <<CT, MPX, BND, "c", LF, LF, DASH, DASH, "c", LF, LF, "x">>
  /\ PartData(headers.log, <<"2">>) = <<DASH, DASH, "c", LF, "y">>
  /\ StartOf(<<"1", ".", "1">>) # {}


-----------------------------------------------------------------------------
(* The default content type, under SpecDigest *)

MaxDigest == 3      \* children of the multipart

\* a child: no Content-Type header and a body with or without text, where the
\* body is the embedded message when the child is one; or a text/plain header
UntypedChildren == { <<LF, LF, "x">>, <<LF>> }
TypedChildren == { <<CT, TXT, LF, LF, "x">> }
DigestChildren == UntypedChildren \cup TypedChildren

ChildLists == UNION { [1..n -> DigestChildren] : n \in 1..MaxDigest }

RECURSIVE ChildrenText(_, _)
ChildrenText(kids, k) ==
  IF k > Len(kids) THEN <<>>
  ELSE <<DASH, DASH, "b", LF>> \o kids[k] \o <<LF>> \o ChildrenText(kids, k + 1)

DigestText(type, kids) ==
  <<CT, type, BND, "b", LF, LF>> \o ChildrenText(kids, 1)
    \o <<DASH, DASH, "b", DASH, DASH, LF>>

InitDigest ==
  /\ \E type \in {MPX, MPD}, kids \in ChildLists :
       /\ InitParser(DefaultOptions, Message(DigestText(type, kids), Unknown))
       /\ headers = [on |-> TRUE, text |-> DigestText(type, kids), log |-> <<>>,
                     type |-> type, kids |-> kids]
  /\ consumer = Quiet
  /\ twin = NoTwin
  /\ emitter = Unused
  /\ registry = Unused

SpecDigest == InitDigest /\ [][NextPackets]_vars

\* child k was reported as a message/rfc822 part that embeds a text/plain
\* message
ParsedAsMessage(k) ==
  /\ StartOf(ChildPart(<<>>, k)) # {} /\ TypeOf(ChildPart(<<>>, k)) = MSG
  /\ StartOf(EmbeddedPart(ChildPart(<<>>, k))) # {}
  /\ TypeOf(EmbeddedPart(ChildPart(<<>>, k))) = TXT
  /\ EndOf(EmbeddedPart(ChildPart(<<>>, k))) # {}

\* child k was reported as a text/plain part that embeds nothing
ParsedAsText(k) ==
  /\ StartOf(ChildPart(<<>>, k)) # {} /\ TypeOf(ChildPart(<<>>, k)) = TXT
  /\ StartOf(EmbeddedPart(ChildPart(<<>>, k))) = {}

-----------------------------------------------------------------------------
(* bodyformat raw, under SpecRaw *)

\* header blocks of the part pruned at: none, a multipart with the boundary c,
\* a message, text in base64 and in quoted-printable
RawHeaderBlocks(eol) ==
  { <<>>, <<CT, MPX, BND, "c">> \o eol, <<CT, MSG>> \o eol,
    <<CTE, B64>> \o eol, <<CTE, QP>> \o eol }

\* bodies of the part pruned at: a child between delimiter lines, base64-like
\* text, text with a soft line break and an escape, a header block and a body,
\* an empty line and text
RawBodies(eol) ==
  { <<DASH, DASH, "c">> \o eol \o eol \o <<"x">> \o eol \o <<DASH, DASH, "c", DASH, DASH>>,
    <<"x", "x", "x", "x">>,
    <<"x", EQ>> \o eol \o <<EQ, "4", "1">>,
    <<CT, TXT>> \o eol \o eol \o <<"x">>,
    eol \o <<"x">> }

\* the part pruned at is the whole message (its last line with or without a
\* line break), or the first of the two children of a multipart
RawTexts(eol) ==
  UNION { { [text |-> h \o eol \o b \o last, body |-> b \o last, P |-> <<>>] :
              last \in {<<>>, eol} }
          \cup { [text |-> <<CT, MPX, BND, "b">> \o eol \o eol \o <<DASH, DASH, "b">> \o eol
                             \o h \o eol \o b \o eol \o <<DASH, DASH, "b">> \o eol
                             \o eol \o <<"z">> \o eol
                             \o <<DASH, DASH, "b", DASH, DASH>> \o eol,
                   body |-> b, P |-> <<"1">>] }
          : h \in RawHeaderBlocks(eol), b \in RawBodies(eol) }

InitRaw ==
  /\ \E eol \in {<<LF>>, <<CR>>} :
       \E m \in RawTexts(eol) :
         /\ InitParser([DefaultOptions EXCEPT !.bodyformat = "raw", !.pruneat = m.P],
                       Message(m.text, Unknown))
         /\ headers = [on |-> TRUE, text |-> m.text, log |-> <<>>,
                       body |-> m.body, P |-> m.P]
  /\ consumer = Quiet
  /\ twin = NoTwin
  /\ emitter = Unused
  /\ registry = Unused

SpecRaw == InitRaw /\ [][NextPackets]_vars

-----------------------------------------------------------------------------
(* Where the emitter folds, under SpecFolds *)

InitFolds ==
  /\ ParserAside
  /\ registry = Unused
  /\ headers = [on |-> FALSE, before |-> <<>>, length |-> 0]
  /\ \E opts \in EmitterChoices : emitter = HeaderEmitter(opts)

\* addText(text, mayBreakAfter); the emitter as it was and the length of the
\* text are kept
AddTextFolding ==
  /\ MayCall
  /\ \E text \in Texts, mayBreakAfter \in BOOLEAN :
       /\ emitter' = addText(Called(emitter), text, mayBreakAfter)
       /\ headers' = [on |-> TRUE, before |-> <<Called(emitter)>>, length |-> Len(text)]
  /\ UNCHANGED <<parserVars, registry>>

\* encodeRFC2047Phrase, its first statements: room for one token is looked
\* for, and the line is broken where it ends when there is none
ReserveFolding ==
  /\ MayCall
  /\ LET r == reserveTokenSpace(Called(emitter), Len(b64Prelude) + 10)
     IN emitter' = IF r.ok THEN r.e ELSE commitLine(r.e, Given(Len(r.e.currentLine)))
  /\ headers' = [on |-> TRUE, before |-> <<Called(emitter)>>,
                 length |-> Len(b64Prelude) + 10]
  /\ UNCHANGED <<parserVars, registry>>

NextFolds == AddTextFolding \/ ReserveFolding

SpecFolds == InitFolds /\ [][NextFolds]_vars

\* the lines sent during the last call
SentByCall == SubSeq(emitter.sink, Len(headers.before[1].sink) + 1, Len(emitter.sink))

\* the line as it is sent when it is folded after its first n characters, and
\* the line that is left
FoldedAt(line, n) == TrimRight(SubSeq(line, 1, n)) \o <<CR, LF>>
LeftAt(line, n) == <<SP>> \o TrimLeft(SubSeq(line, n + 1, Len(line)))

\* the line an emergency break of the last call folded: the current line, or
\* what the fold at the preferred breakpoint left of it
EmergencyLine ==
  LET e == headers.before[1]
  IN IF e.preferredBreakpoint > 0 THEN LeftAt(e.currentLine, e.preferredBreakpoint)
     ELSE e.currentLine

\* the last call folded the line where it ends
EmergencyBreak ==
  LET e == headers.before[1]
  IN \/ e.preferredBreakpoint = 0 /\ Len(SentByCall) >= 1
     \/ Len(SentByCall) >= 2

\* C33: a call folds the line where it ends only when the line with the token
\* would exceed the hard margin, and a line with a preferred breakpoint that
\* would exceed the soft margin with the token is folded at that breakpoint
\* first.
C33_EmergencyOnlyBeyondHardMargin ==
  headers.on =>
    LET e == headers.before[1]
    IN /\ EmergencyBreak =>
            /\ Len(EmergencyLine) + headers.length > e.hardMargin
            /\ SentByCall[Len(SentByCall)] = FoldedAt(EmergencyLine, Len(EmergencyLine))
       /\ (e.preferredBreakpoint > 0
             /\ Len(e.currentLine) + headers.length > e.softMargin)
            => /\ Len(SentByCall) >= 1
               /\ SentByCall[1] = FoldedAt(e.currentLine, e.preferredBreakpoint)
       /\ Len(e.currentLine) + headers.length <= e.softMargin => SentByCall = <<>>

\* a call folded the line at its preferred breakpoint and then where the rest
\* ended
C33_Witness ==
  /\ headers.on
  /\ headers.before[1].preferredBreakpoint > 0
  /\ Len(SentByCall) = 2

\* a call folded a line without a preferred breakpoint
C33_EmergencyWitness ==
  /\ headers.on
  /\ headers.before[1].preferredBreakpoint = 0
  /\ Len(SentByCall) = 1


-----------------------------------------------------------------------------
(* The encoding chosen for each encoded-word, under SpecShorter *)

\* the longest run of ASCII letters before the characters outside ASCII,
\* and the longest line the phrase is added to
MaxPlain == 4
MaxLine == 20

\* ASCII letters, one or two characters outside ASCII, and perhaps a letter
ShorterTexts ==
  {Rep("a", n) \o wide \o Rep("a", m) :
     n \in 0..MaxPlain, m \in 0..1,
     wide \in UNION {[1..k -> WideChars] : k \in 1..2}}

InitShorter ==
  /\ ParserAside
  /\ registry = Unused
  /\ \E opts \in EncodeChoices : emitter = HeaderEmitter(opts)
  /\ \E text \in ShorterTexts :
       headers = [on |-> TRUE, stage |-> "new", text |-> text]

\* text without a breakpoint is on the line when the phrase arrives
PrefillLine ==
  /\ headers.stage = "new"
  /\ \E n \in 0..MaxLine : emitter' = addText(emitter, Rep("a", n), FALSE)
  /\ headers' = [headers EXCEPT !.stage = "filled"]
  /\ UNCHANGED <<parserVars, registry>>

EncodeShorter ==
  /\ headers.stage = "filled"
  /\ \E mayBreakAfter \in BOOLEAN :
       emitter' = encodeRFC2047Phrase(emitter, headers.text, mayBreakAfter)
  /\ headers' = [headers EXCEPT !.stage = "encoded"]
  /\ UNCHANGED <<parserVars, registry>>

NextShorter == PrefillLine \/ EncodeShorter

SpecShorter == InitShorter /\ [][NextShorter]_vars

\* the encoding asked for the octets is not the longer one
ShorterFor(octets, useQP) ==
  IF useQP THEN Len(QpTokens(octets)) <= Len(btoa(octets))
  ELSE Len(btoa(octets)) <= Len(QpTokens(octets))

\* C34: every encoded-word of encodeRFC2047Phrase is written in the encoding
\* that is not the longer one for the octets of that word.
C34_ShorterEncoding ==
  \A i \in DOMAIN emitter.words :
    ShorterFor(emitter.words[i], emitter.viaQP[i])

\* a text was split where the count ran out in the middle of a character,
\* and the word before the split is in the encoding that is not the longer
\* one
C34_Witness ==
  /\ headers.stage = "encoded"
  /\ emitter.err = "none"
  /\ \E i \in 1..(Len(emitter.words) - 1) :
       /\ emitter.words[i] # <<>>
       /\ Len(emitter.words[i]) % 3 # 0
       /\ ShorterFor(emitter.words[i], emitter.viaQP[i])


-----------------------------------------------------------------------------
(* The continuations of parseParameterHeader, name by name, under          *)
(* SpecSegments.  A match is a name and a value as the scan pushed them,    *)
(* both sequences of characters.                                            *)

STAR == "*"

\* name.indexOf('*')
StarOf(name) ==
  LET stars == {i \in 0..(Len(name) - 1) : name[i + 1] = STAR}
  IN IF stars = {} THEN -1 ELSE Min(stars)

\* name[name.length - 1] == '*'
LastStar(name) == name # <<>> /\ name[Len(name)] = STAR

\* name.substring(star + 1, name.length - (lastStar ? 1 : 0))
NumberOf(name) ==
  Substring(name, StarOf(name) + 1, Len(name) - (IF LastStar(name) THEN 1 ELSE 0))

Digits == <<"0", "1", "2", "3", "4", "5", "6", "7", "8", "9">>
IsDigit(c) == \E i \in DOMAIN Digits : Digits[i] = c

\* (number[0] == '0' && number != '0') || !(/^[0-9]+$/.test(number))
IllegalNumber(number) ==
  \/ number # <<>> /\ number[1] = "0" /\ number # <<"0">>
  \/ number = <<>>
  \/ \E i \in DOMAIN number : ~IsDigit(number[i])

\* parseInt(number, 10) of a string of digits
RECURSIVE ParseInt(_)
ParseInt(number) ==
  IF number = <<>> THEN 0
  ELSE 10 * ParseInt(SubSeq(number, 1, Len(number) - 1))
       + ((CHOOSE i \in DOMAIN Digits : Digits[i] = number[Len(number)]) - 1)

\* a loop that goes on storing segments in an entry found to be bungled
StoreSegmentAnyway(entry, name, value) ==
  LET number == NumberOf(name)
      marked == [entry EXCEPT !.seen = TRUE,
                              !.hasCharset = IF number = <<"0">>
                                             THEN <<LastStar(name)>> ELSE @]
  IN IF number # <<"0">> /\ IllegalNumber(number)
     THEN [marked EXCEPT !.valid = FALSE]
     ELSE IF /\ ParseInt(number) + 1 <= Len(entry.parts)
             /\ entry.parts[ParseInt(number) + 1] # <<>>
     THEN [marked EXCEPT !.valid = FALSE]
     ELSE [marked EXCEPT !.parts = SetPart(@, ParseInt(number), value)]

\* the branch of the loop over the matches for param*N= and param*N*=, on the
\* entry of the parameter
StoreSegment(entry, name, value) ==
  LET number == NumberOf(name)
      marked == [entry EXCEPT !.seen = TRUE,
                              !.hasCharset = IF number = <<"0">>
                                             THEN <<LastStar(name)>> ELSE @]
  IN IF entry.seen /\ ~entry.valid THEN entry
     ELSE IF number # <<"0">> /\ IllegalNumber(number)
     THEN [marked EXCEPT !.valid = FALSE]
     ELSE IF /\ ParseInt(number) + 1 <= Len(entry.parts)
             /\ entry.parts[ParseInt(number) + 1] # <<>>
     THEN [marked EXCEPT !.valid = FALSE]
     ELSE [marked EXCEPT !.parts = SetPart(@, ParseInt(number), value)]

\* is the match a continuation of param ?
SegmentOf(match, param) ==
  /\ StarOf(match.name) # -1
  /\ StarOf(match.name) # Len(match.name) - 1
  /\ Substring(match.name, 0, StarOf(match.name)) = param

\* continuationValues.get(param) after the loop over the matches
RECURSIVE SegmentEntry(_, _, _)
SegmentEntry(matches, param, entry) ==
  IF matches = <<>> THEN entry
  ELSE SegmentEntry(Tail(matches), param,
                    IF SegmentOf(Head(matches), param)
                    THEN StoreSegment(entry, Head(matches).name, Head(matches).value)
                    ELSE entry)

\* simpleValues.get(param) and charsetValues.get(param): the first value
\* matched for the name
FirstNamed(matches, name) ==
  LET hits == {i \in DOMAIN matches : matches[i].name = name}
  IN IF hits = {} THEN <<>> ELSE <<matches[Min(hits)].value>>

\* values.get(param) when the loops that build values are over
ValueFor(matches, param, doRFC2231) ==
  IF doRFC2231
  THEN Preferred(Decoded2231(FirstNamed(matches, Append(param, STAR))),
                 ContinuedValue(SegmentEntry(matches, param, NoEntry)),
                 FirstNamed(matches, param))
  ELSE FirstNamed(matches, param)

\* the number of matches of a header value
MaxMatches == 3

SegmentNames ==
  {<<"a">>, <<"a", STAR>>,
   <<"a", STAR, "0">>, <<"a", STAR, "0", STAR>>,
   <<"a", STAR, "1">>, <<"a", STAR, "2">>,
   <<"a", STAR, "0", "1">>, <<"a", STAR, "x">>}

SegmentValues == {<<"v">>, <<UTF8, APOS, APOS, "w">>}

MatchLists ==
  UNION {[1..n -> [name : SegmentNames, value : SegmentValues]] : n \in 0..MaxMatches}

InitSegments ==
  /\ ParserAside
  /\ emitter = Unused
  /\ registry = Unused
  /\ \E matches \in MatchLists, doRFC2231 \in BOOLEAN :
       headers = [on |-> TRUE, matches |-> matches, doRFC2231 |-> doRFC2231,
                  done |-> FALSE, value |-> <<>>]

\* the loops of parseParameterHeader over the matches
BuildValues ==
  /\ ~headers.done
  /\ headers' = [headers EXCEPT
                   !.done = TRUE,
                   !.value = ValueFor(headers.matches, <<"a">>, headers.doRFC2231)]
  /\ UNCHANGED <<parserVars, emitter, registry>>

SpecSegments == InitSegments /\ [][BuildValues]_vars

\* the matches that are continuations of the parameter a
SegmentsOfA == SelectSeq(headers.matches, LAMBDA m : SegmentOf(m, <<"a">>))

\* the position, among the continuations, of the first one with a repeated
\* or an illegal index; 0 when there is none
RECURSIVE FirstBad(_, _, _)
FirstBad(segments, k, seen) ==
  IF k > Len(segments) THEN 0
  ELSE LET number == NumberOf(segments[k].name)
       IN IF IllegalNumber(number) \/ number \in seen THEN k
          ELSE FirstBad(segments, k + 1, seen \cup {number})

\* no simple and no extended form of the parameter is among the matches
OnlySegments ==
  \A i \in DOMAIN headers.matches : SegmentOf(headers.matches[i], <<"a">>)

HasSegmentZero ==
  \E i \in DOMAIN SegmentsOfA : NumberOf(SegmentsOfA[i].name) = <<"0">>

\* C35 as stated: with RFC 2231 decoding, continuations give a value only
\* when segment *0 is there, and a repeated or an illegal index leaves the
\* result without any value assembled from the continuations.
C35_BadIndexDropsEntry ==
  headers.done /\ headers.doRFC2231 /\ OnlySegments =>
    /\ ~HasSegmentZero => headers.value = <<>>
    /\ FirstBad(SegmentsOfA, 1, {}) # 0 => headers.value = <<>>

\* C35 as the code has it: continuations give a value only when segment *0
\* is there, and a repeated or an illegal index makes the continuations
\* from it on be ignored: the segments stored before it are the ones the
\* value is assembled from.
C35_BadIndexStopsEntry ==
  headers.done /\ headers.doRFC2231 /\ OnlySegments =>
    LET bad == FirstBad(SegmentsOfA, 1, {})
        entry == SegmentEntry(SegmentsOfA, <<"a">>, NoEntry)
    IN /\ ~HasSegmentZero => headers.value = <<>>
       /\ bad # 0 =>
            /\ ~entry.valid
            /\ entry.parts =
                 SegmentEntry(SubSeq(SegmentsOfA, 1, bad - 1), <<"a">>, NoEntry).parts
            /\ headers.value \in
                 {<<>>, <<JoinParts(entry.parts)>>,
                  Decoded2231(<<JoinParts(entry.parts)>>)}

\* segments 0 and 1 were stored, a repeated index followed, and the value of
\* the two segments is in the result
C35_Witness ==
  /\ headers.done
  /\ headers.doRFC2231
  /\ OnlySegments
  /\ Len(SegmentsOfA) = 3
  /\ FirstBad(SegmentsOfA, 1, {}) = 3
  /\ headers.value = <<<<"v", "v">>>>

\* an illegal index came before segment 0 and the result has no value
C35_IllegalFirstWitness ==
  /\ headers.done
  /\ headers.doRFC2231
  /\ OnlySegments
  /\ HasSegmentZero
  /\ FirstBad(SegmentsOfA, 1, {}) = 1
  /\ headers.value = <<>>


-----------------------------------------------------------------------------
(* What the streaming decoder of decodeRFC2047Words holds back, under      *)
(* SpecPending                                                              *)

\* =?label?encoding?payload?=
EncodedWord(label, encoding, payload) ==
  <<EQ, "?">> \o label \o <<"?", encoding, "?">> \o payload \o <<"?", EQ>>

\* the octets of the first encoded-word: whole characters, and characters
\* cut after one, two or three octets
PendingOctets ==
  {<<97>>, <<195, 169>>, <<226, 130, 172>>,
   <<195>>, <<226>>, <<226, 130>>, <<240, 159, 152>>, <<97, 195>>}

\* what follows the first encoded-word, and of which kind it is
NextSegments ==
  {[kind |-> "same charset", text |-> EncodedWord(<<"U", "T", "F", "-", "8">>, "Q", <<"a">>)],
   [kind |-> "other charset", text |-> EncodedWord(<<"u", "t", "f", "-", "8">>, "Q", <<"a">>)],
   [kind |-> "unknown charset", text |-> EncodedWord(<<"x">>, "Q", <<"a">>)],
   [kind |-> "bad payload", text |-> EncodedWord(<<"U", "T", "F", "-", "8">>, "B", <<"(">>)],
   [kind |-> "unknown encoding", text |-> EncodedWord(<<"U", "T", "F", "-", "8">>, "Z", <<"a">>)],
   [kind |-> "bad shape", text |-> <<EQ, "?", "a">>],
   [kind |-> "plain text", text |-> <<"a">>]}

InitPending ==
  /\ ParserAside
  /\ emitter = Unused
  /\ registry = Unused
  /\ \E octets \in PendingOctets, useQP \in BOOLEAN, space \in {<<>>, <<SP>>},
        next \in NextSegments :
       headers = [on |-> TRUE, octets |-> octets,
                  first |-> RFC2047Word(octets, useQP), space |-> space,
                  next |-> next, done |-> FALSE, decoded |-> <<>>]

DecodeWords ==
  /\ ~headers.done
  /\ headers' = [headers EXCEPT
                   !.done = TRUE,
                   !.decoded = decodeRFC2047Words(
                                 headers.first \o headers.space \o headers.next.text)]
  /\ UNCHANGED <<parserVars, emitter, registry>>

SpecPending == InitPending /\ [][DecodeWords]_vars

\* the octets of the first word decoded with nothing held back
FlushedFirst == Utf8Decode(headers.octets, FALSE).text

\* what the white space and the next segment give when nothing comes before
NextAlone == decodeRFC2047Words(headers.space \o headers.next.text).text

\* C36: what the decoder holds back after an encoded-word comes out ahead of
\* the next segment when that is an encoded-word of another charset, an
\* encoded-word that does not decode, or plain text that is not white space.
C36_PendingNeverDropped ==
  headers.done /\ headers.next.kind # "same charset" =>
    headers.decoded = [text |-> FlushedFirst \o NextAlone, err |-> "none"]

\* the same without the encoded-words of an unknown charset
C36_PendingFlushedButUnknownCharset ==
  headers.done /\ headers.next.kind \notin {"same charset", "unknown charset"} =>
    headers.decoded = [text |-> FlushedFirst \o NextAlone, err |-> "none"]

\* the first word ended inside a character, and what was held back came out
\* as U+FFFD ahead of an encoded-word of another charset
C36_Witness ==
  /\ headers.done
  /\ headers.octets = <<226, 130>>
  /\ headers.next.kind = "other charset"
  /\ headers.decoded.text = <<REPLACEMENT, "a">>

-----------------------------------------------------------------------------
(* The data of deliverPartData, under SpecEmpty *)

\* bodies the content decoders reduce to nothing line by line: base64 lines
\* of fewer than four characters, with what is left over at the end of the
\* message, a quoted-printable body that is a soft line break, and a
\* multipart with such a child
ShortEncoded ==
  { <<CTE, B64, LF, LF, "x", LF, "x", "x", "x", LF>>,
    <<CTE, B64, LF, LF, "x", "x", "x", "x", "x", LF>>,
    <<CT, TXT, CHS, UTF8, LF, CTE, B64, LF, LF, "x", "x", LF>>,
    <<CTE, QP, LF, LF, EQ, LF, "x", EQ, LF>>,
    <<CT, MPX, BND, "b", LF, LF, DASH, DASH, "b", LF, CTE, B64, LF, LF,
      "x", "x", LF, DASH, DASH, "b", DASH, DASH, LF>> }

InitEmpty ==
  /\ \E opts \in OptionChoices, text \in ShortEncoded :
       InitWith(opts, Message(text, Unknown))
  /\ consumer = Quiet
  /\ twin = NoTwin

SpecEmpty == InitEmpty /\ [][Next]_vars

\* C37: no deliverPartData call is made with data of length zero, whatever
\* the options, the packets and the content decoder, the call made at the end
\* of the message included.
C37_NoEmptyData ==
  \A i \in DOMAIN emitted :
    emitted[i].name = "deliverPartData" => Len(emitted[i].data) > 0

\* the decoder kept the whole of a line of a body: the call that delivered
\* the line reported nothing
C37_Witness ==
  /\ phase = "open"
  /\ thrown = "none"
  /\ options.bodyformat = "decode"
  /\ parser[1].state = SEND_TO_EMITTER
  /\ parser[1].savedBuffer # <<>>
  /\ emitted = <<>>

\* the message ended while the decoder kept characters that decode to
\* nothing: the last call reported the end of the part first
C37_FlushWitness ==
  /\ phase = "closed"
  /\ thrown = "none"
  /\ options.bodyformat = "decode"
  /\ parser[1].convertData # "undefined"
  /\ parser[1].savedBuffer # <<>>
  /\ emitted # <<>>
  /\ emitted[1].name = "endPart"

-----------------------------------------------------------------------------
(* parseAddressingHeader on any header, under SpecAnyAddresses *)

\* the length of the headers
MaxHeaderLen == 5

AddressChars == {"a", ",", ":", ";", "<", ">", "@", DQUOTE, SP}

AnyHeaders == UNION {[1..n -> AddressChars] : n \in 0..MaxHeaderLen}

InitAnyAddresses ==
  /\ ParserAside
  /\ emitter = Unused
  /\ registry = Unused
  /\ \E header \in AnyHeaders :
       headers = [on |-> TRUE, specs |-> <<>>, header |-> header,
                  addresses |-> Undefined]

SpecAnyAddresses == InitAnyAddresses /\ [][ParseAddresses]_vars

\* the record is a group, or an address with a name or an email
Filled(r) == r.kind = "group" \/ r.name # <<>> \/ r.email # <<>>

\* C38: no address of the result, at top level or in a group, has both an
\* empty name and an empty email.
C38_NoEmptyAddress ==
  Parsed =>
    \A i \in DOMAIN headers.addresses[1] :
      LET r == headers.addresses[1][i]
      IN /\ Filled(r)
         /\ \A k \in DOMAIN r.group : Filled(r.group[k]) /\ r.group[k].kind = "address"

\* two commas in a row before an address: the result is that address alone
C38_Witness ==
  /\ Parsed
  /\ headers.header = <<",", ",", "a", ";">>
  /\ headers.addresses[1] = <<Address(<<"a">>, <<>>)>>

\* a group without members, closed by a second separator
C38_GroupWitness ==
  /\ Parsed
  /\ headers.header = <<"a", ":", ";", ";">>
  /\ headers.addresses[1] = <<Group(<<"a">>, <<>>)>>

\* an angle bracket that is not closed
C38_AngleWitness ==
  /\ Parsed
  /\ headers.header = <<"<", "a", ",", "<">>
  /\ Len(headers.addresses[1]) = 1

-----------------------------------------------------------------------------
(* The loop of encodeRFC2047Phrase octet by octet, under SpecScan *)

\* a loop that keeps the count it had when it splits
CharsKept(e, maxChars) == maxChars

\* maxChars = this._softMargin - b64Prelude.length - 3
CharsAfterSplit(e, maxChars) == e.softMargin - Len(b64Prelude) - 3

\* the variables of the loop; splits are the values of i at which a word
\* was added inside the loop
ScanAt(octets, i, start, b64Len, qpLen, maxChars, splits, mayBreakAfter) ==
  [on |-> TRUE, stage |-> "scanning", octets |-> octets, i |-> i, start |-> start,
   b64Len |-> b64Len, qpLen |-> qpLen, maxChars |-> maxChars, splits |-> splits,
   mayBreakAfter |-> mayBreakAfter]

InitScan ==
  /\ ParserAside
  /\ registry = Unused
  /\ \E opts \in EncodeChoices : emitter = HeaderEmitter(opts)
  /\ \E text \in ShorterTexts :
       headers = [on |-> TRUE, stage |-> "new", text |-> text]

\* text without a breakpoint is put on the line
PrefillScan ==
  /\ headers.stage = "new"
  /\ \E n \in 0..MaxLine : emitter' = addText(emitter, Rep("a", n), FALSE)
  /\ headers' = [headers EXCEPT !.stage = "filled"]
  /\ UNCHANGED <<parserVars, registry>>

\* encodeRFC2047Phrase up to the loop
BeginScan ==
  /\ headers.stage = "filled"
  /\ \E mayBreakAfter \in BOOLEAN :
       LET r == reserveTokenSpace(emitter, Len(b64Prelude) + 10)
           e == IF r.ok THEN r.e ELSE commitLine(r.e, Given(Len(r.e.currentLine)))
       IN /\ emitter' = e
          /\ headers' = ScanAt(TextEncode(headers.text), 0, 0, 0, 0,
                               (e.softMargin - Len(e.currentLine))
                                 - (Len(b64Prelude) + 2),
                               <<>>, mayBreakAfter)
  /\ UNCHANGED <<parserVars, registry>>

\* one turn of the loop, the i++ that ends it included
ScanOctet ==
  /\ headers.stage = "scanning"
  /\ headers.i < Len(headers.octets)
  /\ LET s == headers
         b64Inc == B64Inc(s.i, s.start)
         qpInc == QpInc(s.octets[s.i + 1])
         back == Backtrack(s.octets, s.i)
         added == addRFC2047Word(emitter, Substring(s.octets, s.start, back),
                                 s.b64Len >= s.qpLen, TRUE)
     IN IF s.b64Len + b64Inc > s.maxChars /\ s.qpLen + qpInc > s.maxChars
        THEN /\ emitter' = added
             /\ headers' = IF added.err # "none" THEN [s EXCEPT !.stage = "thrown"]
                           ELSE [s EXCEPT !.i = back, !.start = back,
                                          !.b64Len = 0, !.qpLen = 0,
                                          !.maxChars = CharsAfterSplit(emitter, @),
                                          !.splits = Append(@, back)]
        ELSE /\ emitter' = emitter
             /\ headers' = [s EXCEPT !.i = @ + 1, !.b64Len = @ + b64Inc,
                                     !.qpLen = @ + qpInc]
  /\ UNCHANGED <<parserVars, registry>>

\* the statement after the loop
EndScan ==
  /\ headers.stage = "scanning"
  /\ headers.i >= Len(headers.octets)
  /\ emitter' = addRFC2047Word(emitter,
                               Substring(headers.octets, headers.start,
                                         Len(headers.octets)),
                               headers.b64Len >= headers.qpLen,
                               headers.mayBreakAfter)
  /\ headers' = [headers EXCEPT !.stage = "returned"]
  /\ UNCHANGED <<parserVars, registry>>

NextScan == PrefillScan \/ BeginScan \/ ScanOctet \/ EndScan

\* the call is not suspended: a turn of the loop that can be taken is taken
SpecScan == InitScan /\ [][NextScan]_vars /\ WF_vars(NextScan)

\* each split is further in the octets than the one before
SplitsAdvance ==
  headers.stage \in {"scanning", "thrown", "returned"} =>
    \A k \in 1..(Len(headers.splits) - 1) : headers.splits[k] < headers.splits[k + 1]

\* C39: encodeRFC2047Phrase comes to its end, by returning or by throwing,
\* and of two successive splits the second is further in the octets than
\* the first.
C39_ScanTerminates ==
  /\ []SplitsAdvance
  /\ <>(headers.stage \in {"thrown", "returned"})

\* the call returned after two splits, the first of which left the scan
\* where the text begins
C39_Witness ==
  /\ headers.stage = "returned"
  /\ Len(headers.splits) >= 2
  /\ headers.splits[1] = 0

=============================================================================
